---- MODULE Spec2Model ----
(***************************************************************************)
(* Model of the workflow coordinator of .agent-os/sub-agents:              *)
(* AgentCoordinator.execute_workflow and the schedulers, gate and          *)
(* condition evaluator it drives (agent_coordinator.py).                   *)
(*                                                                         *)
(* Encoding of Python values                                               *)
(*   token    [t, n, s]  one lexical piece of a condition string:          *)
(*            t = "num" (numeric literal n), "id" (name s), "op" (s is     *)
(*            one of "<", ">", "==")                                       *)
(*   payload  [k, v]     the 'results' dict of a worker: {k: v}, v an      *)
(*            integer; k = "" is the empty dict {}                         *)
(*   value    [t, n, s]  what _extract_value returns: t = "float" (a       *)
(*            parsed literal), "int" (an integer found in shared_data),    *)
(*            "dict" (a payload {s: n}), "str" (the text s)                *)
(*   shared_data is a sequence of [key, val] in insertion order, as a      *)
(*            Python dict iterates.                                        *)
(***************************************************************************)
EXTENDS Integers, Sequences, FiniteSets, TLC

VARIABLES
    workflow,         \* the definition handed to execute_workflow
    status_callback,  \* "none" | "ok" | "flaky" (may raise on any call)
    pc,               \* position of the orchestrating thread
    i,                \* loop index of the scheduler's for loop (1-based)
    agent_results,    \* execution_context['agent_results']
    errors,           \* execution_context['errors']
    shared_data,      \* execution_context['shared_data']
    final_status,     \* final_status / report['status']
    cb_log,           \* the arguments status_callback was called with
    pool,             \* the ThreadPoolExecutor of the batch in progress
    group_results,    \* local list of _execute_group_step
    invocations,      \* every call of _execute_agent so far: <<step, sub>>
    worker,           \* what a call of _execute_agent may do in this run
    gate_log,         \* every evaluation of _should_execute_step: [step, passed]
    coordinator,      \* the collaborators the AgentCoordinator was built with
    parameters,       \* the parameters of every call of _execute_agent so far
    sessions,         \* the session _execute_agent opened for each call so far
    ended_sessions,   \* the ids _execute_agent has passed to end_session so far
    now,              \* time.time()
    active_sessions,  \* SecurityFramework.active_sessions: session id -> AgentSession
    file_locks,       \* SecurityFramework.file_locks, in insertion order
    violations,       \* what the latest call appended to SecurityFramework.violations
    audit_log,        \* what the latest call appended to SecurityFramework.audit_log
    config,           \* the capability configuration the callers pass in this run
    requests,         \* the [operation, file_path] pairs the callers ask for
    agent_names,      \* the worker identities that call the framework
    last,             \* the latest call of the API, its arguments and return value
    threads,          \* the calls of check_permission stopped between lines 331 and 333
    candidate,        \* the definition handed to the validator or the parser
    outcome,          \* what the latest call of the validator or the parser did
    workflows,        \* WorkflowManager.workflows: name -> version -> definition
    registrations,    \* every call of register_workflow so far: [name, workflow]
    lookup            \* the latest call of get_workflow and what it returned

(* the state of one run of execute_workflow *)
context_vars ==
    <<workflow, status_callback, pc, i, agent_results, errors, shared_data,
      final_status, cb_log, pool, group_results, invocations, worker, gate_log,
      coordinator, parameters, sessions, ended_sessions>>

(* what _execute_agent has done for the calls of the run *)
call_vars == <<parameters, sessions, ended_sessions>>

(* the state of the SecurityFramework and of its callers *)
framework_vars ==
    <<now, active_sessions, file_locks, violations, audit_log, config, requests,
      agent_names, last, threads>>

(* the state of the parser, the validator and the WorkflowManager *)
definition_vars == <<candidate, outcome, workflows, registrations, lookup>>

(* the definition a caller holds and what became of it *)
parser_vars == <<candidate, outcome>>

(* the WorkflowManager and its callers *)
manager_vars == <<workflows, registrations, lookup>>

(* the tables of the SecurityFramework and the record of its latest call *)
table_vars == <<active_sessions, file_locks, violations, audit_log, last>>

(* the clock and the callers of the SecurityFramework *)
caller_vars == <<now, config, requests, agent_names, threads>>

vars == <<context_vars, framework_vars, definition_vars>>

----------------------------------------------------------------------------
(* Bounds of the model *)

MaxSteps == 2

MaxConcurrent == 2

MaxParallelSteps == 3

(* Limit of _execute_parallel_group and _execute_group_step *)
GroupLimit == 5

(* how many calls of check_permission are switched out at a time *)
MaxThreads == 2

(* how far the clock advances *)
MaxTime == 1

(* permission checks on one session *)
MaxChecks == 3

(* calls of register_workflow *)
MaxRegistrations == 3

(* steps of a candidate definition handed to the validator *)
MaxCandidateSteps == 2

----------------------------------------------------------------------------
(* Tokens and conditions *)

Num(n) == [t |-> "num", n |-> n, s |-> ""]
Id(s) == [t |-> "id", n |-> 0, s |-> s]
Op(s) == [t |-> "op", n |-> 0, s |-> s]

NoCondition == << >>

EmptyPayload == [k |-> "", v |-> 0]

RECURSIVE FirstIndex(_, _, _)
(* index of the first token that is the operator op, 0 if none: str.find *)
FirstIndex(condition, op, from) ==
    IF from > Len(condition) THEN 0
    ELSE IF condition[from] = Op(op) THEN from
    ELSE FirstIndex(condition, op, from + 1)

Contains(condition, op) == FirstIndex(condition, op, 1) # 0

(* condition.split(op, 1): the parts before and after the first op *)
SplitLeft(condition, op) ==
    SubSeq(condition, 1, FirstIndex(condition, op, 1) - 1)

SplitRight(condition, op) ==
    SubSeq(condition, FirstIndex(condition, op, 1) + 1, Len(condition))

----------------------------------------------------------------------------
(* shared_data as an insertion-ordered dict *)

SdKeys(sd) == {sd[x].key : x \in 1..Len(sd)}

SdIndex(sd, key) == CHOOSE x \in 1..Len(sd) : sd[x].key = key

SdGet(sd, key) == sd[SdIndex(sd, key)].val

SdPut(sd, key, val) ==
    IF key \in SdKeys(sd)
    THEN [sd EXCEPT ![SdIndex(sd, key)] = [key |-> key, val |-> val]]
    ELSE Append(sd, [key |-> key, val |-> val])

----------------------------------------------------------------------------
(* _extract_value and _evaluate_condition *)

VFloat(n) == [t |-> "float", n |-> n, s |-> ""]
VInt(n) == [t |-> "int", n |-> n, s |-> ""]
VStr(s) == [t |-> "str", n |-> 0, s |-> s]
VDict(p) == [t |-> "dict", n |-> p.v, s |-> p.k]

(* the first variable, in iteration order, whose dict holds the name *)
NestedHolders(name, variables) ==
    {x \in 1..Len(variables) : variables[x].val.k = name}

FirstHolder(name, variables) ==
    CHOOSE x \in NestedHolders(name, variables) :
        \A y \in NestedHolders(name, variables) : x <= y

(* faulty variant: a variable that holds a dict with its own name is not unwrapped *)
extract_value_no_unwrap(expression, variables) ==
    IF Len(expression) = 1 /\ expression[1].t = "num"
    THEN VFloat(expression[1].n)
    ELSE IF Len(expression) = 1 /\ expression[1].t = "id"
    THEN LET name == expression[1].s IN
         IF name \in SdKeys(variables)
         THEN VDict(SdGet(variables, name))
         ELSE IF NestedHolders(name, variables) # {}
         THEN VInt(variables[FirstHolder(name, variables)].val.v)
         ELSE VStr(name)
    ELSE VStr("<text>")

extract_value(expression, variables) ==
    IF Len(expression) = 1 /\ expression[1].t = "num"
    THEN VFloat(expression[1].n)
    ELSE IF Len(expression) = 1 /\ expression[1].t = "id"
    THEN LET name == expression[1].s IN
         IF name \in SdKeys(variables)
         THEN LET var_value == SdGet(variables, name) IN
              IF var_value.k = name THEN VInt(var_value.v)
              ELSE VDict(var_value)
         ELSE IF NestedHolders(name, variables) # {}
         THEN VInt(variables[FirstHolder(name, variables)].val.v)
         ELSE VStr(name)
    ELSE VStr("<text>")

(* float(x) raises for a non-numeric string and for a dict *)
FloatRaises(val) == val.t \in {"str", "dict"}

(* str(a) == str(b): '80' and '80.0' differ, so an int never equals a float *)
StrEqual(a, b) == a.t = b.t /\ a.n = b.n /\ a.s = b.s

(* "true" | "false" | "raise" *)
evaluate_condition(condition, variables) ==
    IF Contains(condition, "<")
    THEN LET left_val == extract_value(SplitLeft(condition, "<"), variables)
             right_val == extract_value(SplitRight(condition, "<"), variables)
         IN IF FloatRaises(left_val) \/ FloatRaises(right_val) THEN "raise"
            ELSE IF left_val.n < right_val.n THEN "true" ELSE "false"
    ELSE IF Contains(condition, ">")
    THEN LET left_val == extract_value(SplitLeft(condition, ">"), variables)
             right_val == extract_value(SplitRight(condition, ">"), variables)
         IN IF FloatRaises(left_val) \/ FloatRaises(right_val) THEN "raise"
            ELSE IF left_val.n > right_val.n THEN "true" ELSE "false"
    ELSE IF Contains(condition, "==")
    THEN LET left_val == extract_value(SplitLeft(condition, "=="), variables)
             right_val == extract_value(SplitRight(condition, "=="), variables)
         IN IF StrEqual(left_val, right_val) THEN "true" ELSE "false"
    ELSE "true"

(* faulty variant: every agent with a recorded result counts, whatever its status *)
completed_agents_any_status(results) ==
    {results[x].agent : x \in 1..Len(results)}

(* agents with a recorded result of status success *)
completed_agents(results) ==
    {results[x].agent : x \in {y \in 1..Len(results) : results[y].status = "success"}}

(* faulty variant: a condition whose evaluation raises skips the step (fail-closed) *)
should_execute_step_fail_closed(step, results, variables) ==
    IF \E d \in 1..Len(step.depends_on) :
           step.depends_on[d] \notin completed_agents(results)
    THEN FALSE
    ELSE IF step.condition # NoCondition
    THEN evaluate_condition(step.condition, variables) = "true"
    ELSE TRUE

should_execute_step(step, results, variables) ==
    IF \E d \in 1..Len(step.depends_on) :
           step.depends_on[d] \notin completed_agents(results)
    THEN FALSE
    ELSE IF step.condition # NoCondition
    THEN evaluate_condition(step.condition, variables) # "false"
    ELSE TRUE

----------------------------------------------------------------------------
(* Workflow definitions *)

(* a step without the key 'parameters' *)
NoParameters == [present |-> FALSE, dict |-> << >>]

(* a single-agent step {agent, output_key?, depends_on?, condition?, parallel?}
   without input_from *)
AgentStep(agent, output_key, depends_on, condition, parallel) ==
    [kind |-> "agent", agent |-> agent, output_key |-> output_key,
     depends_on |-> depends_on, condition |-> condition,
     parallel |-> parallel, agents |-> << >>, input_from |-> "",
     parameters |-> NoParameters]

(* the step with parameters: dict *)
Parameters(step, dict) == [step EXCEPT !.parameters = [present |-> TRUE, dict |-> dict]]

(* the step with input_from: key *)
InputFrom(step, key) == [step EXCEPT !.input_from = key]

(* the step with output_key: key *)
OutputKey(step, key) == [step EXCEPT !.output_key = key]

(* a group step {group, parallel?, depends_on?, agents: [...]}; agents holds
   the nested steps' agent names, and output_key and input_from are the keys
   that every nested step declares *)
GroupStep(parallel, agents, depends_on) ==
    [kind |-> "group", agent |-> "", output_key |-> "",
     depends_on |-> depends_on, condition |-> NoCondition,
     parallel |-> parallel, agents |-> agents, input_from |-> "",
     parameters |-> NoParameters]

(* all sequences over S of length 1..n *)
SeqsUpTo(S, n) == UNION {[1..m -> S] : m \in 1..n}

(* max_concurrent = 0 stands for a definition without the key *)
Workflows(types, kinds, concurrents, n) ==
    [type : types, max_concurrent : concurrents, steps : SeqsUpTo(kinds, n)]

----------------------------------------------------------------------------
(* The worker contract: what one call of _execute_agent may do *)

Success(p) == [kind |-> "success", payload |-> p]
ReturnsError == [kind |-> "error", payload |-> EmptyPayload]
Raises == [kind |-> "raise", payload |-> EmptyPayload]

Scores == {70, 80, 90}

PayloadKeys == {"score", "r"}

Payloads == [k : PayloadKeys, v : Scores] \cup {EmptyPayload}

Outcomes == {Success(p) : p \in Payloads} \cup {ReturnsError, Raises}

NoResult ==
    [step |-> 0, sub |-> 0, agent |-> "", status |-> "", results |-> EmptyPayload,
     via |-> ""]

(* _execute_single_agent_step: the worker's result stamped with the agent, or
   an error result when the call raised. step and sub locate the step in the
   definition (sub = 0 for a top-level step). *)
execute_single_agent_step(step, sub, agent, out) ==
    IF out.kind = "success"
    THEN [step |-> step, sub |-> sub, agent |-> agent, status |-> "success",
          results |-> out.payload, via |-> "returned"]
    ELSE IF out.kind = "error"
    THEN [step |-> step, sub |-> sub, agent |-> agent, status |-> "error",
          results |-> EmptyPayload, via |-> "returned"]
    ELSE [step |-> step, sub |-> sub, agent |-> agent, status |-> "error",
          results |-> EmptyPayload, via |-> "raised"]

(* lines 515-525: the parameters of the worker call of a step, in a run
   without a shared context: the step's own dict, or a new one when the step
   has none, with the value of shared_data under the step's input_from added
   when there is one *)
step_parameters(step, sd) ==
    IF step.input_from # "" /\ step.input_from \in SdKeys(sd)
    THEN SdPut(step.parameters.dict, step.input_from, SdGet(sd, step.input_from))
    ELSE step.parameters.dict

(* lines 515 and 525: the dict that was filled is the step's own when the
   step has one, and the step keeps what was put into it *)
after_call(step, sd) ==
    IF step.parameters.present
    THEN [step EXCEPT !.parameters.dict = step_parameters(step, sd)]
    ELSE step

(* the definition after the worker call of its step k *)
called(definition, k, sd) ==
    [definition EXCEPT !.steps[k] = after_call(@, sd)]

(* faulty variant: the result is published whatever its status *)
update_shared_data_any_status(sd, output_key, result) ==
    IF output_key # "" THEN SdPut(sd, output_key, result.results) ELSE sd

(* the shared_data write that follows a recorded result *)
update_shared_data(sd, output_key, result) ==
    IF output_key # "" /\ result.status = "success"
    THEN SdPut(sd, output_key, result.results)
    ELSE sd

ErrorRecord(step, type, agent) == [step |-> step, type |-> type, agent |-> agent]

----------------------------------------------------------------------------
(* Paths and patterns of the SecurityFramework                              *)
(*                                                                          *)
(* A path string is a sequence of tokens: the separator "/", the segments   *)
(* "." and "..", names and extensions. "cv/a.md" is <<"cv", "/", "a",       *)
(* ".md">>. A glob pattern is such a sequence with the token "*".           *)

(* the segments of a path string between its separators: str.split('/') *)
RECURSIVE Segments(_, _, _)
Segments(path, from, segment) ==
    IF from > Len(path) THEN <<segment>>
    ELSE IF path[from] = "/" THEN <<segment>> \o Segments(path, from + 1, << >>)
    ELSE Segments(path, from + 1, Append(segment, path[from]))

(* the path string of a sequence of segments, '.' for none: str(Path) *)
RECURSIVE Joined(_, _)
Joined(segments, from) ==
    IF from > Len(segments) THEN << >>
    ELSE IF from = Len(segments) THEN segments[from]
    ELSE segments[from] \o <<"/">> \o Joined(segments, from + 1)

PathStr(segments) == IF segments = << >> THEN <<".">> ELSE Joined(segments, 1)

(* Path(...): empty segments and '.' segments are dropped, '..' is kept *)
RECURSIVE Parts(_, _)
Parts(segments, from) ==
    IF from > Len(segments) THEN << >>
    ELSE IF segments[from] \in {<< >>, <<".">>} THEN Parts(segments, from + 1)
    ELSE <<segments[from]>> \o Parts(segments, from + 1)

(* Path.resolve() on a tree without symbolic links: '..' removes the segment
   before it and stays at the filesystem root *)
RECURSIVE Resolved(_, _, _)
Resolved(parts, from, stack) ==
    IF from > Len(parts) THEN stack
    ELSE IF parts[from] = <<"..">>
    THEN Resolved(parts, from + 1,
                  IF stack = << >> THEN << >> ELSE SubSeq(stack, 1, Len(stack) - 1))
    ELSE Resolved(parts, from + 1, Append(stack, parts[from]))

(* self.project_root, already resolved: the directory /proj *)
project_root == <<<<"proj">>>>

(* (self.project_root / file_path).resolve() *)
full_path(file_path) ==
    Resolved(project_root \o Parts(Segments(file_path, 1, << >>), 1), 1, << >>)

(* whether full_path.relative_to(self.project_root) raises ValueError *)
EscapesRoot(file_path) ==
    \/ Len(full_path(file_path)) < Len(project_root)
    \/ SubSeq(full_path(file_path), 1, Len(project_root)) # project_root

(* str(relative_path) *)
relative_path(file_path) ==
    PathStr(SubSeq(full_path(file_path), Len(project_root) + 1,
                   Len(full_path(file_path))))

(* str(Path(file_path).as_posix()) of release_file_lock and _acquire_file_lock *)
normalized_path(file_path) == PathStr(Parts(Segments(file_path, 1, << >>), 1))

(* str.startswith *)
StartsWith(path_str, prefix) ==
    Len(path_str) >= Len(prefix) /\ SubSeq(path_str, 1, Len(prefix)) = prefix

allowed_prefixes ==
    {<<"cv", "/">>, <<"docs", "/">>, <<"dev_tools", "/">>, <<".agent-os", "/">>,
     <<".claude", "/">>, <<"temp", "/">>, <<"generated-content", "/">>,
     <<"README", ".md">>, <<"CLAUDE", ".md">>}

restricted_prefixes ==
    {<<".git", "/">>, <<"node_modules", "/">>, <<"__pycache__", "/">>, <<".env">>}

(* the extensions a file at the root of the project may have *)
root_extensions == {".md", ".py", ".bat", ".css", ".yaml"}

(* faulty variant: every file at the root of the project is in the sandbox *)
is_path_in_sandbox_any_root_file(path_str) ==
    IF \E prefix \in restricted_prefixes : StartsWith(path_str, prefix) THEN FALSE
    ELSE IF \E prefix \in allowed_prefixes : StartsWith(path_str, prefix) THEN TRUE
    ELSE \A t \in 1..Len(path_str) : path_str[t] # "/"

(* _is_path_in_sandbox *)
is_path_in_sandbox(path_str) ==
    IF \E prefix \in restricted_prefixes : StartsWith(path_str, prefix) THEN FALSE
    ELSE IF \E prefix \in allowed_prefixes : StartsWith(path_str, prefix) THEN TRUE
    ELSE /\ \A t \in 1..Len(path_str) : path_str[t] # "/"
         /\ path_str[Len(path_str)] \in root_extensions

(* fnmatch.fnmatch: '*' matches any run of characters, '/' included *)
RECURSIVE fnmatch(_, _, _, _)
fnmatch(file_path, pattern, f, p) ==
    IF p > Len(pattern) THEN f > Len(file_path)
    ELSE IF pattern[p] = "*"
    THEN \/ fnmatch(file_path, pattern, f, p + 1)
         \/ f <= Len(file_path) /\ fnmatch(file_path, pattern, f + 1, p)
    ELSE /\ f <= Len(file_path)
         /\ file_path[f] = pattern[p]
         /\ fnmatch(file_path, pattern, f + 1, p + 1)

(* _matches_patterns *)
matches_patterns(file_path, patterns) ==
    \E x \in 1..Len(patterns) : fnmatch(file_path, patterns[x], 1, 1)

----------------------------------------------------------------------------
(* SecurityFramework                                                        *)
(*                                                                          *)
(* The operators below take the framework's tables as the record self       *)
(* [active_sessions, file_locks, violations, audit_log] and return the      *)
(* tables after the call, with the return value where there is one.         *)
(* violations and audit_log only grow and no operation reads them: of each  *)
(* the model keeps the entries the latest call appended, in order.          *)

(* a dict without the key: del d[key] *)
SdDel(sd, key) == SelectSeq(sd, LAMBDA item : item.key # key)

(* a function with one more (or one replaced) entry: d[key] = val *)
FnPut(fn, key, val) ==
    [x \in DOMAIN fn \cup {key} |-> IF x = key THEN val ELSE fn[x]]

(* a function without the key: del d[key] *)
FnDel(fn, key) == [x \in DOMAIN fn \ {key} |-> fn[x]]

(* an id create_session never returns *)
NoSession == <<"", 0>>

(* the capability configuration: permissions.read, permissions.write,
   security.sandbox_mode, security.timeout and behavior.max_operations *)
Config(read, write, sandbox_mode, timeout, max_operations) ==
    [read |-> read, write |-> write, sandbox_mode |-> sandbox_mode,
     timeout |-> timeout, max_operations |-> max_operations]

(* permissions.get(operation.value, []) *)
allowed_patterns(cfg, operation) ==
    IF operation = "read" THEN cfg.read
    ELSE IF operation = "write" THEN cfg.write
    ELSE << >>

(* _generate_session_id: the first 16 hex digits of md5('agent:timestamp'),
   one id per pair of agent name and timestamp *)
generate_session_id(agent_name, t) == <<agent_name, t>>

(* _log_audit_event *)
log_audit_event(self, event_type, agent_name, session_id, file_path) ==
    [self EXCEPT !.audit_log =
        Append(@, [event_type |-> event_type, agent_name |-> agent_name,
                   session_id |-> session_id, file_path |-> file_path])]

(* _record_violation *)
record_violation(self, agent_name, violation_type, operation, file_path) ==
    log_audit_event(
        [self EXCEPT !.violations =
            Append(@, [agent_name |-> agent_name, violation_type |-> violation_type,
                       operation |-> operation, file_path |-> file_path])],
        "security_violation", agent_name, NoSession, file_path)

(* create_session: the tables after the call and the id returned *)
create_session(self, agent_name, cfg, t) ==
    LET session_id == generate_session_id(agent_name, t)
        session == [agent_name |-> agent_name,
                    operations_count |-> 0, files_accessed |-> {},
                    last_activity |-> t, max_operations |-> cfg.max_operations,
                    timeout |-> cfg.timeout]
    IN [self |-> log_audit_event(
                     [self EXCEPT !.active_sessions = FnPut(@, session_id, session)],
                     "session_created", agent_name, session_id, << >>),
        ret |-> session_id]

(* lines 327-331: the entry of the path names another worker *)
locked_by_another(self, file_path, agent_name) ==
    /\ normalized_path(file_path) \in SdKeys(self.file_locks)
    /\ SdGet(self.file_locks, normalized_path(file_path)) # agent_name

(* lines 333-337: the entry is written and the acquisition logged *)
set_file_lock(self, file_path, agent_name) ==
    LET normalized == normalized_path(file_path) IN
    log_audit_event([self EXCEPT !.file_locks = SdPut(@, normalized, agent_name)],
                    "file_lock_acquired", agent_name, NoSession, normalized)

(* faulty variant: the lock is taken whoever holds it *)
acquire_file_lock_from_holder(self, file_path, agent_name) ==
    LET normalized == normalized_path(file_path) IN
    [self |-> log_audit_event(
                  [self EXCEPT !.file_locks = SdPut(@, normalized, agent_name)],
                  "file_lock_acquired", agent_name, NoSession, normalized),
     ret |-> TRUE]

(* _acquire_file_lock *)
acquire_file_lock(self, file_path, agent_name) ==
    IF locked_by_another(self, file_path, agent_name)
    THEN [self |-> self, ret |-> FALSE]
    ELSE [self |-> set_file_lock(self, file_path, agent_name), ret |-> TRUE]

(* release_file_lock *)
release_file_lock(self, file_path, agent_name) ==
    LET normalized == normalized_path(file_path) IN
    IF normalized \in SdKeys(self.file_locks)
    THEN IF SdGet(self.file_locks, normalized) = agent_name
         THEN [self |-> log_audit_event(
                            [self EXCEPT !.file_locks = SdDel(@, normalized)],
                            "file_lock_released", agent_name, NoSession, normalized),
               ret |-> TRUE]
         ELSE [self |-> self, ret |-> FALSE]
    ELSE [self |-> self, ret |-> TRUE]

(* the loop of end_session over locks_to_release *)
RECURSIVE release_all(_, _, _, _)
release_all(self, locks_to_release, from, agent_name) ==
    IF from > Len(locks_to_release) THEN self
    ELSE release_all(release_file_lock(self, locks_to_release[from].key, agent_name).self,
                     locks_to_release, from + 1, agent_name)

(* faulty variant: the session is removed and its worker's locks are kept *)
end_session_keeps_locks(self, session_id) ==
    IF session_id \notin DOMAIN self.active_sessions THEN self
    ELSE LET agent_name == self.active_sessions[session_id].agent_name
             ended == log_audit_event(self, "session_ended", agent_name, session_id, << >>)
         IN [ended EXCEPT !.active_sessions = FnDel(@, session_id)]

(* faulty variant: the locks of every worker are released *)
end_session_releases_every_lock(self, session_id) ==
    IF session_id \notin DOMAIN self.active_sessions THEN self
    ELSE LET agent_name == self.active_sessions[session_id].agent_name
             ended == log_audit_event([self EXCEPT !.file_locks = << >>],
                                      "session_ended", agent_name, session_id, << >>)
         IN [ended EXCEPT !.active_sessions = FnDel(@, session_id)]

(* end_session *)
end_session(self, session_id) ==
    IF session_id \notin DOMAIN self.active_sessions THEN self
    ELSE LET agent_name == self.active_sessions[session_id].agent_name
             locks_to_release ==
                 SelectSeq(self.file_locks, LAMBDA item : item.val = agent_name)
             released == release_all(self, locks_to_release, 1, agent_name)
             ended == log_audit_event(released, "session_ended", agent_name,
                                      session_id, << >>)
         IN [ended EXCEPT !.active_sessions = FnDel(@, session_id)]

(* faulty variant: a session expires as soon as its timeout has elapsed *)
validate_session_expires_early(self, session_id, t) ==
    IF session_id \notin DOMAIN self.active_sessions
    THEN [self |-> self, ret |-> FALSE]
    ELSE IF t - self.active_sessions[session_id].last_activity
                >= self.active_sessions[session_id].timeout
    THEN [self |-> end_session(self, session_id), ret |-> FALSE]
    ELSE [self |-> self, ret |-> TRUE]

(* faulty variant: an expired session is refused and left in the table *)
validate_session_keeps_expired(self, session_id, t) ==
    IF session_id \notin DOMAIN self.active_sessions
    THEN [self |-> self, ret |-> FALSE]
    ELSE [self |-> self,
          ret |-> ~(t - self.active_sessions[session_id].last_activity
                        > self.active_sessions[session_id].timeout)]

(* _validate_session *)
validate_session(self, session_id, t) ==
    IF session_id \notin DOMAIN self.active_sessions
    THEN [self |-> self, ret |-> FALSE]
    ELSE IF t - self.active_sessions[session_id].last_activity
                > self.active_sessions[session_id].timeout
    THEN [self |-> end_session(self, session_id), ret |-> FALSE]
    ELSE [self |-> self, ret |-> TRUE]

(* lines 98-100: the session's activity is refreshed and its counter raised *)
touched(self, session_id, t) ==
    [self EXCEPT !.active_sessions[session_id].last_activity = t,
                 !.active_sessions[session_id].operations_count = @ + 1]

(* faulty variant: the ceiling is compared before the counter is raised *)
over_limit_before_increment(session) ==
    session.operations_count - 1 > session.max_operations

(* line 103, on the session after the increment *)
over_limit(session) == session.operations_count > session.max_operations

(* lines 157-163: the path joins the session's files and the grant is logged;
   the session object is the one the call looked up at line 95, in the table
   or not *)
record_access(self, session_id, agent_name, file_path) ==
    log_audit_event(
        IF session_id \in DOMAIN self.active_sessions
        THEN [self EXCEPT !.active_sessions[session_id].files_accessed =
                              @ \cup {relative_path(file_path)}]
        ELSE self,
        "permission_granted", agent_name, session_id, relative_path(file_path))

(* lines 146-164: the write lock and the grant *)
grant(self, session_id, agent_name, operation, file_path) ==
    LET lock == IF operation = "write"
                THEN acquire_file_lock(self, relative_path(file_path), agent_name)
                ELSE [self |-> self, ret |-> TRUE]
    IN IF ~lock.ret
       THEN [self |-> record_violation(lock.self, agent_name, "file_lock_conflict",
                                       operation, file_path),
             ret |-> FALSE]
       ELSE [self |-> record_access(lock.self, session_id, agent_name, file_path),
             ret |-> TRUE]

(* check_permission *)
check_permission(self, session_id, operation, file_path, cfg, t) ==
    LET valid == validate_session(self, session_id, t) IN
    IF ~valid.ret THEN [self |-> valid.self, ret |-> FALSE]
    ELSE
    LET active == touched(valid.self, session_id, t)
        agent_name == active.active_sessions[session_id].agent_name
    IN IF over_limit(active.active_sessions[session_id])
       THEN [self |-> record_violation(active, agent_name, "operation_limit_exceeded",
                                       operation, file_path),
             ret |-> FALSE]
       ELSE IF EscapesRoot(file_path)
       THEN [self |-> record_violation(active, agent_name, "path_traversal_attempt",
                                       operation, file_path),
             ret |-> FALSE]
       ELSE IF cfg.sandbox_mode /\ ~is_path_in_sandbox(relative_path(file_path))
       THEN [self |-> record_violation(active, agent_name, "sandbox_violation",
                                       operation, file_path),
             ret |-> FALSE]
       ELSE IF ~matches_patterns(relative_path(file_path),
                                 allowed_patterns(cfg, operation))
       THEN [self |-> record_violation(active, agent_name, "permission_denied",
                                       operation, file_path),
             ret |-> FALSE]
       ELSE grant(active, session_id, agent_name, operation, file_path)

----------------------------------------------------------------------------
(* The SecurityFramework's tables before and after a call of its API *)

(* the framework's tables as a call finds them, nothing appended yet *)
Self ==
    [active_sessions |-> active_sessions, file_locks |-> file_locks,
     violations |-> << >>, audit_log |-> << >>]

(* the tables become those of self *)
Becomes(self) ==
    /\ active_sessions' = self.active_sessions
    /\ file_locks' = self.file_locks
    /\ violations' = self.violations
    /\ audit_log' = self.audit_log

(* the record of one call: ret is "true", "false", "none" or "id" *)
Call(call, session_id, agent_name, operation, file_path, ret) ==
    [call |-> call, session_id |-> session_id, agent_name |-> agent_name,
     operation |-> operation, file_path |-> file_path, ret |-> ret]

NoCall == Call("", NoSession, "", "", << >>, "none")

Bool(b) == IF b THEN "true" ELSE "false"

----------------------------------------------------------------------------
(* _execute_agent: the session around a worker call *)

(* the collaborators of a coordinator: whether it has a security framework,
   whether it has a config parser, and the agents the parser has a
   configuration for *)
Coordinator(security_framework, config_parser, known) ==
    [security_framework |-> security_framework, config_parser |-> config_parser,
     known |-> known]

(* lines 553-561: a session is created when the coordinator has a framework and
   a parser and the parser knows the agent; ret is NoSession for None *)
open_session(self, agent_name, t) ==
    IF /\ coordinator.security_framework
       /\ coordinator.config_parser
       /\ agent_name \in coordinator.known
    THEN create_session(self, agent_name, config, t)
    ELSE [self |-> self, ret |-> NoSession]

(* lines 605-611: the finally block *)
close_session(self, session_id) ==
    IF session_id # NoSession /\ coordinator.security_framework
    THEN end_session(self, session_id)
    ELSE self

(* one whole call of _execute_agent, the worker's part aside *)
execute_agent(self, agent_name, t) ==
    LET opened == open_session(self, agent_name, t) IN
    [self |-> close_session(opened.self, opened.ret), ret |-> opened.ret]

(* the calls of _execute_agent for the nested agents of a sequential group, one
   after the other: the tables after the last and the sessions opened *)
RECURSIVE execute_agents(_, _, _, _)
execute_agents(self, agents, from, t) ==
    IF from > Len(agents) THEN [self |-> self, ret |-> << >>]
    ELSE LET one == execute_agent(self, agents[from], t)
             rest == execute_agents(one.self, agents, from + 1, t)
         IN [self |-> rest.self, ret |-> <<one.ret>> \o rest.ret]

(* the ids of a sequence of sessions that were opened *)
Opened(ids) == SelectSeq(ids, LAMBDA session_id : session_id # NoSession)

(* the framework's tables after the calls of an action of the coordinator;
   they stay as they are when no session was opened *)
BecomesAfter(self, ids) ==
    IF Opened(ids) = << >>
    THEN UNCHANGED <<active_sessions, file_locks, violations, audit_log, last>>
    ELSE /\ Becomes(self)
         /\ last' = Call("end_session", Opened(ids)[Len(Opened(ids))], "", "", << >>,
                         "none")

----------------------------------------------------------------------------
(* Thread pools *)

NoPool == [owner |-> "none", max_workers |-> 0, futs |-> << >>]

Future(step, sub, agent, output_key) ==
    [step |-> step, sub |-> sub, agent |-> agent, output_key |-> output_key,
     state |-> "queued", result |-> NoResult, session_id |-> NoSession]

Min(a, b) == IF a < b THEN a ELSE b

InState(p, st) == {f \in 1..Len(p.futs) : p.futs[f].state = st}

(* faulty variant: the pool's with block does not wait for its futures *)
AllCollected_no_barrier(p) == TRUE

AllCollected(p) == \A f \in 1..Len(p.futs) : p.futs[f].state = "collected"

----------------------------------------------------------------------------
(* execute_workflow *)

steps == workflow.steps

(* whether one call of the status callback may raise *)
CallbackRaises == IF status_callback = "flaky" THEN BOOLEAN ELSE {FALSE}

(* cb_log after status_callback(phase), when a callback was supplied *)
Called(log, phase) == IF status_callback = "none" THEN log ELSE Append(log, phase)

(* where the orchestrating thread goes once the loop body at index n is done *)
AfterStep(loop, n) == IF n >= Len(steps) THEN "finalize" ELSE loop

(* the except branch of execute_workflow followed by the compilation of the
   report: the handler's own status_callback('failed') is not guarded *)
workflow_error(errs, log) ==
    /\ errors' = Append(errs, ErrorRecord(0, "workflow_error", ""))
    /\ final_status' = "failed"
    /\ cb_log' = Called(log, "failed")
    /\ \E raises \in CallbackRaises : pc' = IF raises THEN "raised" ELSE "done"

(* lines 223-239: the context is built and status_callback('initializing') is
   called outside the try block *)
Initialize ==
    /\ pc = "start"
    /\ cb_log' = Called(cb_log, "initializing")
    /\ \E raises \in CallbackRaises : pc' = IF raises THEN "raised" ELSE "try"
    /\ UNCHANGED <<framework_vars, definition_vars, call_vars, coordinator,
                   workflow, status_callback, worker, gate_log, i, agent_results, errors,
                   shared_data, final_status, pool, group_results, invocations>>

(* the record of one evaluation of the gate of step n *)
Gate(n) ==
    [step |-> n,
     passed |-> should_execute_step(steps[n], agent_results, shared_data)]

(* faulty variant: the gate's depends_on check is left out of the filter *)
executable_steps_ignoring_depends_on ==
    {x \in 1..Len(steps) :
        should_execute_step([steps[x] EXCEPT !.depends_on = << >>],
                            agent_results, shared_data)}

(* the indices of the steps _execute_parallel keeps as executable_steps *)
executable_steps ==
    {x \in 1..Len(steps) : should_execute_step(steps[x], agent_results, shared_data)}

(* the futures _execute_parallel and _execute_parallel_group submit: one per
   single-agent step of the indices in keep, in order *)
RECURSIVE Submit(_, _)
Submit(keep, from) ==
    IF from > Len(steps) THEN << >>
    ELSE IF from \in keep /\ steps[from].kind = "agent"
    THEN <<Future(from, 0, steps[from].agent, steps[from].output_key)>>
             \o Submit(keep, from + 1)
    ELSE Submit(keep, from + 1)

(* faulty variant: the pool is as wide as the step list, whatever max_concurrent *)
parallel_max_workers_unbounded == Len(steps)

(* max_workers of _execute_parallel *)
parallel_max_workers ==
    IF workflow.max_concurrent = 0 THEN Len(steps) ELSE workflow.max_concurrent

(* faulty variant: only as many steps as the pool has workers are submitted *)
future_to_step_first_batch ==
    SubSeq(Submit(executable_steps, 1), 1,
           Min(parallel_max_workers, Len(Submit(executable_steps, 1))))

(* lines 363-367: the futures of _execute_parallel *)
future_to_step == Submit(executable_steps, 1)

(* lines 241-257: status_callback('running'), then the scheduler of the
   execution type is entered; _execute_parallel filters and submits at once *)
Dispatch ==
    /\ pc = "try"
    /\ \E raises \in CallbackRaises :
        IF raises
        THEN /\ workflow_error(errors, Called(cb_log, "running"))
             /\ UNCHANGED <<i, pool, gate_log>>
        ELSE IF workflow.type = "sequential"
        THEN /\ pc' = AfterStep("sequential", 0)
             /\ i' = 1
             /\ cb_log' = Called(cb_log, "running")
             /\ UNCHANGED <<errors, final_status, pool, gate_log>>
        ELSE IF workflow.type = "parallel" /\ parallel_max_workers <= 0
        THEN /\ workflow_error(errors, Called(cb_log, "running"))
             /\ UNCHANGED <<i, pool, gate_log>>
        ELSE IF workflow.type = "parallel"
        THEN /\ pc' = "parallel_collect"
             /\ pool' = [owner |-> "parallel", max_workers |-> parallel_max_workers,
                         futs |-> future_to_step]
             /\ gate_log' = gate_log \o [n \in 1..Len(steps) |-> Gate(n)]
             /\ cb_log' = Called(cb_log, "running")
             /\ UNCHANGED <<i, errors, final_status>>
        ELSE IF workflow.type = "mixed"
        THEN /\ pc' = AfterStep("mixed", 0)
             /\ i' = 1
             /\ cb_log' = Called(cb_log, "running")
             /\ UNCHANGED <<errors, final_status, pool, gate_log>>
        ELSE /\ workflow_error(errors, Called(cb_log, "running"))
             /\ UNCHANGED <<i, pool, gate_log>>
    /\ UNCHANGED <<framework_vars, definition_vars, call_vars, coordinator,
                   workflow, status_callback, worker, agent_results, shared_data,
                   group_results, invocations>>

(* lines 259-266 *)
determine_final_status(errs, results) ==
    IF errs # << >>
    THEN IF results # << >> THEN "partial_failure" ELSE "failed"
    ELSE "completed"

(* lines 259-299: the final status, status_callback(final_status) inside the
   try block, and the report *)
Finalize ==
    /\ pc = "finalize"
    /\ LET status == determine_final_status(errors, agent_results) IN
       \E raises \in CallbackRaises :
         IF raises
         THEN workflow_error(errors, Called(cb_log, status))
         ELSE /\ final_status' = status
              /\ cb_log' = Called(cb_log, status)
              /\ pc' = "done"
              /\ UNCHANGED errors
    /\ UNCHANGED <<framework_vars, definition_vars, call_vars, coordinator,
                   workflow, status_callback, worker, gate_log, i, agent_results, shared_data,
                   pool, group_results, invocations>>

----------------------------------------------------------------------------
(* _execute_sequential *)

(* faulty variant: only the first nested agent of a parallel group is submitted *)
GroupFutures_first_only(n) ==
    [k \in 1..Min(1, Len(steps[n].agents)) |-> Future(n, k, steps[n].agents[k], "")]

(* the futures _execute_group_step submits for a parallel group *)
GroupFutures(n) ==
    [k \in 1..Len(steps[n].agents) |-> Future(n, k, steps[n].agents[k], "")]

(* the results of a sequential group, one per nested agent, in order *)
GroupResults(n, outs) ==
    [k \in 1..Len(steps[n].agents) |->
        execute_single_agent_step(n, k, steps[n].agents[k], outs[k])]

(* faulty variant: an error is recorded for every result, whatever its status *)
sequential_errors_always(errs, n, result) ==
    Append(errs, ErrorRecord(n, "agent_error", result.agent))

(* faulty variant: only an error result the worker returned is recorded, not one
   made from an exception *)
sequential_errors_returned_only(errs, n, result) ==
    IF result.status = "error" /\ result.via = "returned"
    THEN Append(errs, ErrorRecord(n, "agent_error", result.agent))
    ELSE errs

(* the errors _execute_sequential records for a single-agent result *)
sequential_errors(errs, n, result) ==
    IF result.status = "error"
    THEN Append(errs, ErrorRecord(n, "agent_error", result.agent))
    ELSE errs

(* lines 305-345: one iteration of the loop of _execute_sequential. A parallel
   group hands its nested agents to a pool and is finished by GroupJoin. *)
SequentialStep ==
    /\ pc = "sequential"
    /\ gate_log' = Append(gate_log, Gate(i))
    /\ LET step == steps[i] IN
       IF ~should_execute_step(step, agent_results, shared_data)
       THEN /\ i' = i + 1
            /\ pc' = AfterStep("sequential", i)
            /\ UNCHANGED <<agent_results, errors, shared_data, pool,
                           group_results, invocations, table_vars, call_vars>>
       ELSE IF step.kind = "agent"
       THEN \E out \in worker :
            LET result == execute_single_agent_step(i, 0, step.agent, out)
                call == execute_agent(Self, step.agent, now)
            IN
            /\ agent_results' = Append(agent_results, result)
            /\ errors' = sequential_errors(errors, i, result)
            /\ shared_data' = update_shared_data(shared_data, step.output_key, result)
            /\ invocations' = Append(invocations, <<i, 0>>)
            /\ parameters' = Append(parameters, step_parameters(step, shared_data))
            /\ sessions' = Append(sessions, call.ret)
            /\ ended_sessions' = ended_sessions \o Opened(<<call.ret>>)
            /\ BecomesAfter(call.self, <<call.ret>>)
            /\ i' = i + 1
            /\ pc' = AfterStep("sequential", i)
            /\ UNCHANGED <<pool, group_results>>
       ELSE IF step.parallel /\ Len(step.agents) = 0
       THEN \* ThreadPoolExecutor(max_workers=0) raises ValueError
            /\ errors' = Append(errors, ErrorRecord(i, "step_error", ""))
            /\ i' = i + 1
            /\ pc' = AfterStep("sequential", i)
            /\ UNCHANGED <<agent_results, shared_data, pool, group_results,
                           invocations, table_vars, call_vars>>
       ELSE IF step.parallel
       THEN /\ pool' = [owner |-> "group",
                        max_workers |-> Min(Len(step.agents), GroupLimit),
                        futs |-> GroupFutures(i)]
            /\ group_results' = << >>
            /\ pc' = "group_collect"
            /\ UNCHANGED <<i, agent_results, errors, shared_data, invocations,
                           table_vars, call_vars>>
       ELSE \E outs \in [1..Len(step.agents) -> worker] :
            LET calls == execute_agents(Self, step.agents, 1, now) IN
            /\ agent_results' = agent_results \o GroupResults(i, outs)
            /\ invocations' =
                   invocations \o [k \in 1..Len(step.agents) |-> <<i, k>>]
            /\ parameters' =
                   parameters \o [k \in 1..Len(step.agents) |->
                                     step_parameters(step, shared_data)]
            /\ sessions' = sessions \o calls.ret
            /\ ended_sessions' = ended_sessions \o Opened(calls.ret)
            /\ BecomesAfter(calls.self, calls.ret)
            /\ i' = i + 1
            /\ pc' = AfterStep("sequential", i)
            /\ UNCHANGED <<errors, shared_data, pool, group_results>>
    /\ workflow' = IF /\ should_execute_step(steps[i], agent_results, shared_data)
                      /\ steps[i].kind = "agent"
                   THEN called(workflow, i, shared_data)
                   ELSE workflow
    /\ UNCHANGED <<caller_vars, definition_vars, coordinator,
                   status_callback, worker, final_status, cb_log>>

(* lines 478-509 and 336: the pool of a parallel group has shut down and the
   group's results are appended as one block *)
GroupJoin ==
    /\ pc = "group_collect"
    /\ AllCollected(pool)
    /\ agent_results' = agent_results \o group_results
    /\ group_results' = << >>
    /\ pool' = NoPool
    /\ i' = i + 1
    /\ pc' = AfterStep("sequential", i)
    /\ UNCHANGED <<framework_vars, definition_vars, call_vars, coordinator,
                   workflow, status_callback, worker, gate_log, errors, shared_data, final_status,
                   cb_log, invocations>>

----------------------------------------------------------------------------
(* _execute_mixed *)

(* the last index of the run of consecutive parallel steps that starts at n *)
RECURSIVE RunEnd(_)
RunEnd(n) ==
    IF n + 1 <= Len(steps) /\ steps[n + 1].parallel THEN RunEnd(n + 1) ELSE n

(* lines 402-407: the step at n and the later steps of its run whose gate passes *)
parallel_steps(n) ==
    {n} \cup {j \in (n + 1)..RunEnd(n) :
                 should_execute_step(steps[j], agent_results, shared_data)}

(* the for loop's index after a batch: the assignment i = j - 1 of line 413 is
   overwritten by enumerate, so the scan resumes at the next position *)
after_batch(n) == n + 1

(* lines 394-431: one iteration of the loop of _execute_mixed. A parallel step
   opens a batch, which MixedJoin finishes. *)
MixedStep ==
    /\ pc = "mixed"
    /\ LET step == steps[i] IN
       IF ~should_execute_step(step, agent_results, shared_data)
       THEN /\ gate_log' = Append(gate_log, Gate(i))
            /\ i' = i + 1
            /\ pc' = AfterStep("mixed", i)
            /\ UNCHANGED <<agent_results, shared_data, pool, invocations,
                           table_vars, call_vars>>
       ELSE IF step.parallel
       THEN /\ gate_log' = gate_log \o <<Gate(i)>> \o [k \in 1..(RunEnd(i) - i) |-> Gate(i + k)]
            /\ pool' = [owner |-> "mixed",
                        max_workers |-> Min(Cardinality(parallel_steps(i)), GroupLimit),
                        futs |-> Submit(parallel_steps(i), 1)]
            /\ pc' = "mixed_collect"
            /\ UNCHANGED <<i, agent_results, shared_data, invocations,
                           table_vars, call_vars>>
       ELSE IF step.kind = "agent"
       THEN \E out \in worker :
            LET result == execute_single_agent_step(i, 0, step.agent, out)
                call == execute_agent(Self, step.agent, now)
            IN
            /\ gate_log' = Append(gate_log, Gate(i))
            /\ agent_results' = Append(agent_results, result)
            /\ shared_data' = update_shared_data(shared_data, step.output_key, result)
            /\ invocations' = Append(invocations, <<i, 0>>)
            /\ parameters' = Append(parameters, step_parameters(step, shared_data))
            /\ sessions' = Append(sessions, call.ret)
            /\ ended_sessions' = ended_sessions \o Opened(<<call.ret>>)
            /\ BecomesAfter(call.self, <<call.ret>>)
            /\ i' = i + 1
            /\ pc' = AfterStep("mixed", i)
            /\ UNCHANGED pool
       ELSE /\ gate_log' = Append(gate_log, Gate(i))
            /\ i' = i + 1
            /\ pc' = AfterStep("mixed", i)
            /\ UNCHANGED <<agent_results, shared_data, pool, invocations,
                           table_vars, call_vars>>
    /\ workflow' = IF /\ should_execute_step(steps[i], agent_results, shared_data)
                      /\ ~steps[i].parallel
                      /\ steps[i].kind = "agent"
                   THEN called(workflow, i, shared_data)
                   ELSE workflow
    /\ UNCHANGED <<caller_vars, definition_vars, coordinator,
                   status_callback, worker, errors, final_status, cb_log,
                   group_results>>

(* lines 437-461 and 413: the batch's pool has shut down *)
MixedJoin ==
    /\ pc = "mixed_collect"
    /\ AllCollected(pool)
    /\ pool' = NoPool
    /\ i' = after_batch(i)
    /\ pc' = AfterStep("mixed", after_batch(i) - 1)
    /\ UNCHANGED <<framework_vars, definition_vars, call_vars, coordinator,
                   workflow, status_callback, worker, gate_log, agent_results, errors, shared_data,
                   final_status, cb_log, group_results, invocations>>

----------------------------------------------------------------------------
(* The pool's worker threads and the collecting loops *)

(* the parameters of the worker call of a future, built by
   _execute_single_agent_step on the pool's thread *)
future_parameters(fut, sd) == step_parameters(steps[fut.step], sd)

(* a pool thread takes the oldest queued future, builds the parameters, opens
   the session and calls the worker *)
WorkerStart ==
    /\ InState(pool, "queued") # {}
    /\ Cardinality(InState(pool, "running")) < pool.max_workers
    /\ LET f == CHOOSE x \in InState(pool, "queued") :
                    \A y \in InState(pool, "queued") : x <= y
           opened == open_session(Self, pool.futs[f].agent, now)
       IN
       /\ pool' = [pool EXCEPT !.futs[f].state = "running",
                               !.futs[f].session_id = opened.ret]
       /\ invocations' = Append(invocations, <<pool.futs[f].step, pool.futs[f].sub>>)
       /\ parameters' = Append(parameters, future_parameters(pool.futs[f], shared_data))
       /\ sessions' = Append(sessions, opened.ret)
       /\ IF opened.ret = NoSession
          THEN UNCHANGED table_vars
          ELSE /\ Becomes(opened.self)
               /\ last' = Call("create_session", opened.ret, pool.futs[f].agent, "",
                               << >>, "id")
       /\ workflow' = called(workflow, pool.futs[f].step, shared_data)
    /\ UNCHANGED <<caller_vars, definition_vars, ended_sessions, coordinator,
                   status_callback, worker, gate_log, pc, i, agent_results, errors,
                   shared_data, final_status, cb_log, group_results>>

(* the worker call of a running future returns or raises, the session is
   closed and the future resolves with the result of
   _execute_single_agent_step *)
WorkerFinish ==
    /\ \E f \in InState(pool, "running") : \E out \in worker :
        /\ pool' = [pool EXCEPT
                       !.futs[f].state = "done",
                       !.futs[f].result =
                           execute_single_agent_step(pool.futs[f].step, pool.futs[f].sub,
                                                     pool.futs[f].agent, out)]
        /\ ended_sessions' = ended_sessions \o Opened(<<pool.futs[f].session_id>>)
        /\ BecomesAfter(close_session(Self, pool.futs[f].session_id),
                        <<pool.futs[f].session_id>>)
    /\ UNCHANGED <<caller_vars, definition_vars, parameters, sessions, coordinator,
                   workflow, status_callback, worker, gate_log, pc, i, agent_results, errors,
                   shared_data, final_status, cb_log, group_results, invocations>>

(* faulty variant: the collecting loop records the result of a future twice *)
Collect_twice ==
    /\ pc \in {"parallel_collect", "mixed_collect"}
    /\ \E f \in InState(pool, "done") :
        /\ pool' = [pool EXCEPT !.futs[f].state = "collected"]
        /\ agent_results' = Append(Append(agent_results, pool.futs[f].result),
                                 pool.futs[f].result)
        /\ shared_data' = update_shared_data(shared_data, pool.futs[f].output_key,
                                             pool.futs[f].result)
    /\ UNCHANGED <<framework_vars, definition_vars, call_vars, coordinator,
                   workflow, status_callback, worker, gate_log, pc, i, errors, final_status,
                   cb_log, group_results, invocations>>

(* lines 370-379 and 445-453: as_completed yields a resolved future and the
   orchestrating thread records its result *)
Collect ==
    /\ pc \in {"parallel_collect", "mixed_collect"}
    /\ \E f \in InState(pool, "done") :
        /\ pool' = [pool EXCEPT !.futs[f].state = "collected"]
        /\ agent_results' = Append(agent_results, pool.futs[f].result)
        /\ shared_data' = update_shared_data(shared_data, pool.futs[f].output_key,
                                             pool.futs[f].result)
    /\ UNCHANGED <<framework_vars, definition_vars, call_vars, coordinator,
                   workflow, status_callback, worker, gate_log, pc, i, errors, final_status,
                   cb_log, group_results, invocations>>

(* lines 478-482: as_completed of _execute_group_step *)
GroupCollect ==
    /\ pc = "group_collect"
    /\ \E f \in InState(pool, "done") :
        /\ pool' = [pool EXCEPT !.futs[f].state = "collected"]
        /\ group_results' = Append(group_results, pool.futs[f].result)
    /\ UNCHANGED <<framework_vars, definition_vars, call_vars, coordinator,
                   workflow, status_callback, worker, gate_log, pc, i, agent_results, errors,
                   shared_data, final_status, cb_log, invocations>>

(* line 361: the with block of _execute_parallel ends *)
ParallelJoin ==
    /\ pc = "parallel_collect"
    /\ AllCollected(pool)
    /\ pool' = NoPool
    /\ pc' = "finalize"
    /\ UNCHANGED <<framework_vars, definition_vars, call_vars, coordinator,
                   workflow, status_callback, worker, gate_log, i, agent_results, errors,
                   shared_data, final_status, cb_log, group_results, invocations>>

----------------------------------------------------------------------------
(* Calls of the SecurityFramework's API, one at a time *)

(* the ids create_session may have returned so far, and one it never returns *)
SessionIds ==
    {generate_session_id(agent_name, t) : agent_name \in agent_names, t \in 0..now}
        \cup {NoSession}

(* time passes between two calls *)
Tick ==
    /\ now < MaxTime
    /\ now' = now + 1
    /\ UNCHANGED <<context_vars, definition_vars, active_sessions, file_locks, violations, audit_log,
                   config, requests, agent_names, last, threads>>

(* the callers keep at most as many sessions open as there are workers *)
CreateSession ==
    /\ \E agent_name \in agent_names :
        LET r == create_session(Self, agent_name, config, now) IN
        /\ Cardinality(DOMAIN r.self.active_sessions) <= Cardinality(agent_names)
        /\ Becomes(r.self)
        /\ last' = Call("create_session", r.ret, agent_name, "", << >>, "id")
    /\ UNCHANGED <<context_vars, definition_vars, caller_vars>>

CheckPermission ==
    /\ \E session_id \in SessionIds : \E request \in requests :
        LET r == check_permission(Self, session_id, request.operation,
                                  request.file_path, config, now) IN
        /\ session_id \in DOMAIN active_sessions =>
               active_sessions[session_id].operations_count < MaxChecks
        /\ Becomes(r.self)
        /\ last' = Call("check_permission", session_id, "", request.operation,
                        request.file_path, Bool(r.ret))
    /\ UNCHANGED <<context_vars, definition_vars, caller_vars>>

ReleaseFileLock ==
    /\ \E request \in requests : \E agent_name \in agent_names :
        LET r == release_file_lock(Self, request.file_path, agent_name) IN
        /\ Becomes(r.self)
        /\ last' = Call("release_file_lock", NoSession, agent_name, "",
                        request.file_path, Bool(r.ret))
    /\ UNCHANGED <<context_vars, definition_vars, caller_vars>>

EndSession ==
    /\ \E session_id \in SessionIds :
        /\ Becomes(end_session(Self, session_id))
        /\ last' = Call("end_session", session_id, "", "", << >>, "none")
    /\ UNCHANGED <<context_vars, definition_vars, caller_vars>>

(* A call of check_permission for a write that another thread's call
   overtakes: the class takes no lock around its tables, so the calling thread
   can be switched out between the test of lines 327-331 and the assignment of
   line 333. *)

(* a call in flight: what its frame holds when it is switched out *)
Thread(session_id, agent_name, file_path) ==
    [session_id |-> session_id, agent_name |-> agent_name, file_path |-> file_path]

(* lines 92-144 and 327-331: a write check passes every gate and finds the
   path free or its own, and its thread is switched out before line 333 *)
LockTested ==
    /\ Len(threads) < MaxThreads
    /\ \E session_id \in SessionIds : \E request \in requests :
        LET r == check_permission(Self, session_id, request.operation,
                                  request.file_path, config, now) IN
        /\ request.operation = "write"
        /\ r.ret
        /\ active_sessions[session_id].operations_count < MaxChecks
        /\ Becomes(touched(Self, session_id, now))
        /\ threads' = Append(threads,
                             Thread(session_id, active_sessions[session_id].agent_name,
                                    request.file_path))
    /\ UNCHANGED <<context_vars, definition_vars, now, config, requests, agent_names,
                   last>>

(* lines 333-337 and 157-164: the thread runs again, writes the entry of the
   path, records the access and returns True *)
LockTaken ==
    /\ \E t \in 1..Len(threads) :
        LET thread == threads[t]
            locked == set_file_lock(Self, relative_path(thread.file_path),
                                    thread.agent_name)
        IN /\ Becomes(record_access(locked, thread.session_id, thread.agent_name,
                                    thread.file_path))
           /\ last' = Call("check_permission", thread.session_id, "", "write",
                           thread.file_path, "true")
           /\ threads' = SubSeq(threads, 1, t - 1) \o SubSeq(threads, t + 1, Len(threads))
    /\ UNCHANGED <<context_vars, definition_vars, now, config, requests, agent_names>>

----------------------------------------------------------------------------
(* WorkflowValidator and WorkflowParser                                      *)
(*                                                                          *)
(* A candidate definition is described by what the validator looks at: for  *)
(* each key whether it is there and of which type its value is.             *)
(*   shape          "dict", or "none" for None (an empty document)          *)
(*   name           "absent" | "present"                                    *)
(*   agents         "absent" | "empty" (the list []) | "list" | "other"     *)
(*   steps          [kind, items]: kind is "absent", "other" (not a list)   *)
(*                  or "list" with the steps in items                       *)
(*   a step         [kind, agent, group, depends_on, condition]: kind is    *)
(*                  "dict" or "other"; agent and group tell whether the key *)
(*                  is there; depends_on is "absent", "str", "strs" (a list *)
(*                  of strings), "ints" (a list of integers) or "other";    *)
(*                  condition is "absent", "str" or "other"                 *)
(*   execution      [kind, type, max_concurrent]: kind is "absent", "dict"  *)
(*                  or "other" (a string); type is "absent" or the string;  *)
(*                  max_concurrent is [kind, n] with kind "absent", "int"   *)
(*                  or "other"                                              *)
(*   parsed_at      whether the definition carries the parser's stamp       *)

StepShape(kind, agent, group, depends_on, condition) ==
    [kind |-> kind, agent |-> agent, group |-> group, depends_on |-> depends_on,
     condition |-> condition]

Execution(kind, type, max_concurrent) ==
    [kind |-> kind, type |-> type, max_concurrent |-> max_concurrent]

NoExecution == Execution("absent", "absent", [kind |-> "absent", n |-> 0])

Candidate(shape, name, agents, step_list, execution) ==
    [shape |-> shape, name |-> name, agents |-> agents, steps |-> step_list,
     execution |-> execution, parsed_at |-> FALSE]

NoCandidate ==
    Candidate("dict", "absent", "absent", [kind |-> "absent", items |-> << >>],
              NoExecution)

(* an entry of the validator's errors: the message and the step it names, -1
   when it names none *)
Message(text, step) == [text |-> text, step |-> step]

(* lines 114-131: the errors of the step at index n (0-based) *)
validate_step(step, n) ==
    IF step.kind # "dict" THEN <<Message("must be a dictionary", n)>>
    ELSE (IF ~step.agent /\ ~step.group
          THEN <<Message("must have either 'agent' or 'group' field", n)>>
          ELSE << >>)
         \o (IF step.depends_on \notin {"absent", "str", "strs", "ints"}
             THEN <<Message("'depends_on' must be string or list", n)>>
             ELSE << >>)
         \o (IF step.condition \notin {"absent", "str"}
             THEN <<Message("'condition' must be a string", n)>>
             ELSE << >>)

(* _validate_steps *)
RECURSIVE validate_steps(_, _)
validate_steps(items, from) ==
    IF from > Len(items) THEN << >>
    ELSE validate_step(items[from], from - 1) \o validate_steps(items, from + 1)

valid_types == {"sequential", "parallel", "mixed"}

(* _validate_execution_config on a mapping *)
validate_execution_config(execution) ==
    (IF execution.type # "absent" /\ execution.type \notin valid_types
     THEN <<Message("Invalid execution type", -1)>>
     ELSE << >>)
    \o (IF /\ execution.type = "parallel"
           /\ execution.max_concurrent.kind # "absent"
           /\ \/ execution.max_concurrent.kind # "int"
              \/ execution.max_concurrent.n < 1
        THEN <<Message("'max_concurrent' must be a positive integer", -1)>>
        ELSE << >>)

(* lines 85-101: the errors of the required fields, the agents and the steps *)
validate_fields(definition) ==
    (IF definition.name = "absent"
     THEN <<Message("Missing required field: name", -1)>> ELSE << >>)
    \o (IF definition.agents = "absent"
        THEN <<Message("Missing required field: agents", -1)>> ELSE << >>)
    \o (IF definition.steps.kind = "absent"
        THEN <<Message("Missing required field: steps", -1)>> ELSE << >>)
    \o (IF definition.agents \in {"empty", "other"}
        THEN <<Message("'agents' must be a non-empty list", -1)>> ELSE << >>)
    \o (IF definition.steps.kind = "absent" THEN << >>
        ELSE IF definition.steps.kind = "other" \/ definition.steps.items = << >>
        THEN <<Message("'steps' must be a non-empty list", -1)>>
        ELSE validate_steps(definition.steps.items, 1))

(* what a call returned or raised: raised is "" or the exception's type *)
Outcome(call, raised, valid, errs, message, returned) ==
    [call |-> call, raised |-> raised, valid |-> valid, errors |-> errs,
     message |-> message, returned |-> returned]

NoOutcome == Outcome("", "", FALSE, << >>, << >>, FALSE)

(* validate_workflow: 'field not in workflow' raises TypeError on None, and
   _validate_execution_config raises AttributeError on a value without get *)
validate_workflow(definition) ==
    IF definition.shape = "none"
    THEN Outcome("validate_workflow", "TypeError", FALSE, << >>, << >>, FALSE)
    ELSE IF definition.execution.kind = "other"
    THEN Outcome("validate_workflow", "AttributeError", FALSE, << >>, << >>, FALSE)
    ELSE LET errs == validate_fields(definition)
                         \o (IF definition.execution.kind = "dict"
                             THEN validate_execution_config(definition.execution)
                             ELSE << >>)
         IN Outcome("validate_workflow", "", Len(errs) = 0, errs, << >>, TRUE)

(* ', '.join(errors): the pieces of the joined text, the validator's messages
   with the separator between them *)
RECURSIVE join(_, _)
join(errs, from) ==
    IF from > Len(errs) THEN << >>
    ELSE IF from = Len(errs) THEN <<errs[from]>>
    ELSE <<errs[from], Message(", ", -1)>> \o join(errs, from + 1)

(* faulty variant: the definition is stamped and returned whatever the
   validator said *)
parse_workflow_dict_unchecked(definition) ==
    LET checked == validate_workflow(definition) IN
    IF checked.raised # ""
    THEN [outcome |-> [checked EXCEPT !.call = "parse_workflow_dict"],
          definition |-> definition]
    ELSE [outcome |-> Outcome("parse_workflow_dict", "", checked.valid, checked.errors,
                              << >>, TRUE),
          definition |-> [definition EXCEPT !.parsed_at = TRUE]]

(* parse_workflow_dict: the outcome of the call and the caller's definition
   after it (the stamp is written into the caller's own dict) *)
parse_workflow_dict(definition) ==
    LET checked == validate_workflow(definition) IN
    IF checked.raised # ""
    THEN [outcome |-> [checked EXCEPT !.call = "parse_workflow_dict"],
          definition |-> definition]
    ELSE IF ~checked.valid
    THEN [outcome |-> Outcome("parse_workflow_dict", "ValueError", FALSE,
                              checked.errors,
                              <<Message("Invalid workflow: ", -1)>>
                                  \o join(checked.errors, 1),
                              FALSE),
          definition |-> definition]
    ELSE [outcome |-> Outcome("parse_workflow_dict", "", TRUE, << >>, << >>, TRUE),
          definition |-> [definition EXCEPT !.parsed_at = TRUE]]

(* a caller validates the candidate *)
ValidateWorkflow ==
    /\ outcome = NoOutcome
    /\ outcome' = validate_workflow(candidate)
    /\ UNCHANGED <<context_vars, framework_vars, manager_vars, candidate>>

(* a caller parses the candidate *)
ParseWorkflowDict ==
    /\ outcome = NoOutcome
    /\ outcome' = parse_workflow_dict(candidate).outcome
    /\ candidate' = parse_workflow_dict(candidate).definition
    /\ UNCHANGED <<context_vars, framework_vars, manager_vars>>

----------------------------------------------------------------------------
(* WorkflowManager                                                          *)
(*                                                                          *)
(* A version string is the sequence of its characters: '10.0.0' is          *)
(* <<"1", "0", ".", "0", ".", "0">>. A registered definition is [version,   *)
(* id]: version is << >> when the definition has no 'version' key, and id   *)
(* tells the registered objects apart.                                      *)

(* ord(c) of the characters of a version string *)
ord(c) ==
    CASE c = "." -> 46
      [] c = "0" -> 48
      [] c = "1" -> 49
      [] c = "2" -> 50
      [] c = "9" -> 57

(* a < b on Python strings: the first differing character decides, a proper
   prefix is smaller *)
RECURSIVE str_less(_, _, _)
str_less(a, b, k) ==
    IF k > Len(b) THEN FALSE
    ELSE IF k > Len(a) THEN TRUE
    ELSE IF a[k] # b[k] THEN ord(a[k]) < ord(b[k])
    ELSE str_less(a, b, k + 1)

(* workflow.get('version', '1.0.0') *)
version_of(definition) ==
    IF definition.version = << >> THEN <<"1", ".", "0", ".", "0">> ELSE definition.version

(* what get_workflow returns for None *)
NoWorkflow == [version |-> << >>, id |-> 0]

(* register_workflow: the table after the call *)
register_workflow(table, name, definition) ==
    FnPut(table, name,
          FnPut(IF name \in DOMAIN table THEN table[name] ELSE << >>,
                version_of(definition), definition))

(* sorted(versions, reverse=True)[0]: the greatest version string *)
latest_version(versions) ==
    CHOOSE v \in versions : \A w \in versions : ~str_less(v, w, 1)

(* get_workflow: version is << >> for None *)
get_workflow(table, name, version) ==
    IF name \notin DOMAIN table THEN NoWorkflow
    ELSE IF version # << >>
    THEN IF version \in DOMAIN table[name] THEN table[name][version] ELSE NoWorkflow
    ELSE table[name][latest_version(DOMAIN table[name])]

(* the record of one call of get_workflow *)
Lookup(name, version, ret) == [name |-> name, version |-> version, ret |-> ret]

NoLookup == Lookup("", << >>, NoWorkflow)

(* the names and the versions the callers register: no 'version' key, 9.0.0
   and 10.0.0 *)
RegisteredNames == {"w", "x"}

RegisteredVersions ==
    {<< >>, <<"9", ".", "0", ".", "0">>, <<"1", "0", ".", "0", ".", "0">>}

(* a caller registers a definition under a name *)
RegisterWorkflow ==
    /\ Len(registrations) < MaxRegistrations
    /\ \E name \in RegisteredNames : \E version \in RegisteredVersions :
        LET definition == [version |-> version, id |-> Len(registrations) + 1] IN
        /\ workflows' = register_workflow(workflows, name, definition)
        /\ registrations' = Append(registrations, [name |-> name, workflow |-> definition])
    /\ UNCHANGED <<context_vars, framework_vars, parser_vars, lookup>>

(* a caller looks a definition up, under a name and a version that may not
   be registered *)
GetWorkflow ==
    /\ \E name \in RegisteredNames \cup {"y"} :
       \E version \in RegisteredVersions
                       \cup {<<"1", ".", "0", ".", "0">>, <<"2", ".", "0", ".", "0">>} :
        lookup' = Lookup(name, version, get_workflow(workflows, name, version))
    /\ UNCHANGED <<context_vars, framework_vars, parser_vars, workflows, registrations>>

----------------------------------------------------------------------------
(* Specifications *)

A(parallel) == AgentStep("A", "r", << >>, NoCondition, parallel)

B(parallel) == AgentStep("B", "", << >>, NoCondition, parallel)

BAfterA(parallel) == AgentStep("B", "", <<"A">>, NoCondition, parallel)

(* B gated by the condition 'left op right' *)
BWhen(left, op, right) == AgentStep("B", "", << >>, <<left, Op(op), right>>, FALSE)

GroupAB(parallel, depends_on) == GroupStep(parallel, <<"A", "B">>, depends_on)

(* Definitions of every execution type. The parallel flag of a single-agent
   step is read by _execute_mixed only, max_concurrent by _execute_parallel
   only, and _execute_parallel never looks at group steps' flags. *)
Definitions ==
    Workflows({"sequential", "unknown"},
              {A(FALSE), BAfterA(FALSE), GroupAB(TRUE, << >>), GroupAB(FALSE, << >>),
               GroupAB(FALSE, <<"A">>), GroupStep(TRUE, << >>, << >>)},
              {0}, MaxSteps)
    \cup Workflows({"parallel"},
                   {A(FALSE), BAfterA(FALSE), GroupAB(TRUE, << >>)},
                   0..MaxConcurrent, MaxSteps)
    \cup Workflows({"mixed"},
                   {A(par) : par \in BOOLEAN} \cup {BAfterA(par) : par \in BOOLEAN}
                       \cup {GroupAB(TRUE, << >>)},
                   {0}, MaxSteps)

(* the sequential definitions among them: single-agent steps and groups *)
GroupDefinitions == {definition \in Definitions : definition.type = "sequential"}

(* Sequential definitions of single-agent steps with every kind of gate *)
SequentialDefinitions ==
    Workflows({"sequential"},
              {A(FALSE), B(FALSE), BAfterA(FALSE),
               BWhen(Id("r.score"), "<", Num(80)), BWhen(Id("r"), "<", Num(80)),
               BWhen(Id("score"), "<", Num(80))}
                  \cup {BWhen(Id("missing"), op, Num(5)) : op \in {"<", ">", "=="}},
              {0}, MaxSteps)

(* Parallel definitions of independent single-agent steps *)
ParallelDefinitions ==
    Workflows({"parallel"}, {A(FALSE), B(FALSE)}, 1..MaxConcurrent, MaxParallelSteps)

(* SecurityFramework.__init__: empty tables *)
NewFramework ==
    /\ now = 0
    /\ active_sessions = << >>
    /\ file_locks = << >>
    /\ violations = << >>
    /\ audit_log = << >>
    /\ last = NoCall
    /\ threads = << >>

(* no definition has been validated, parsed, registered or looked up *)
NoDefinitions ==
    /\ candidate = NoCandidate
    /\ outcome = NoOutcome
    /\ workflows = << >>
    /\ registrations = << >>
    /\ lookup = NoLookup

(* a coordinator without a security framework *)
NoFramework ==
    /\ NewFramework
    /\ config = Config(<< >>, << >>, TRUE, 0, 0)
    /\ requests = {}
    /\ agent_names = {}
    /\ coordinator = Coordinator(FALSE, FALSE, {})

(* lines 223-235: a run of execute_workflow is about to start *)
NewRun(definitions, callbacks, outcomes) ==
    /\ workflow \in definitions
    /\ status_callback \in callbacks
    /\ worker = outcomes
    /\ pc = "start"
    /\ i = 0
    /\ agent_results = << >>
    /\ errors = << >>
    /\ shared_data = << >>
    /\ final_status = ""
    /\ cb_log = << >>
    /\ pool = NoPool
    /\ group_results = << >>
    /\ invocations = << >>
    /\ gate_log = << >>
    /\ parameters = << >>
    /\ sessions = << >>
    /\ ended_sessions = << >>

InitWith(definitions, callbacks, outcomes) ==
    /\ NewRun(definitions, callbacks, outcomes)
    /\ NoFramework
    /\ NoDefinitions

Init ==
    InitWith(Definitions, {"none", "ok", "flaky"},
             {Success(EmptyPayload), ReturnsError, Raises})

Next ==
    \/ Initialize
    \/ Dispatch
    \/ SequentialStep
    \/ GroupJoin
    \/ MixedStep
    \/ MixedJoin
    \/ WorkerStart
    \/ WorkerFinish
    \/ Collect
    \/ GroupCollect
    \/ ParallelJoin
    \/ Finalize

(* every execution type, every callback, workers that succeed, fail or raise *)
Spec == Init /\ [][Next]_vars

(* the orchestrating thread keeps running, the pool gives every queued task
   a thread as soon as one is free, and every worker call returns or raises *)
Fairness ==
    /\ WF_vars(Initialize)
    /\ WF_vars(Dispatch)
    /\ WF_vars(SequentialStep)
    /\ WF_vars(GroupJoin)
    /\ WF_vars(MixedStep)
    /\ WF_vars(MixedJoin)
    /\ WF_vars(Collect)
    /\ WF_vars(GroupCollect)
    /\ WF_vars(ParallelJoin)
    /\ WF_vars(Finalize)
    /\ WF_vars(WorkerStart)
    /\ WF_vars(WorkerFinish)

(* the runs of Spec in which no thread stops for ever *)
SpecFair == Init /\ [][Next]_vars /\ Fairness

InitSequential == InitWith(SequentialDefinitions, {"none", "ok"}, Outcomes)

NextSequential == Initialize \/ Dispatch \/ SequentialStep \/ Finalize

(* sequential runs of gated single-agent steps, workers with every payload *)
SpecSequential == InitSequential /\ [][NextSequential]_vars

InitParallel ==
    InitWith(ParallelDefinitions, {"none", "ok"},
             {Success(EmptyPayload), ReturnsError, Raises})

NextParallel ==
    Initialize \/ Dispatch \/ WorkerStart \/ WorkerFinish \/ Collect
        \/ ParallelJoin \/ Finalize

(* parallel runs of independent single-agent steps on a bounded pool *)
SpecParallel == InitParallel /\ [][NextParallel]_vars

(* the coordinator is idle while the framework's API is called directly *)
Idle ==
    /\ workflow = [type |-> "sequential", max_concurrent |-> 0, steps |-> <<A(FALSE)>>]
    /\ status_callback = "none"
    /\ worker = {}
    /\ pc = "idle"
    /\ i = 0
    /\ agent_results = << >>
    /\ errors = << >>
    /\ shared_data = << >>
    /\ final_status = ""
    /\ cb_log = << >>
    /\ pool = NoPool
    /\ group_results = << >>
    /\ invocations = << >>
    /\ gate_log = << >>
    /\ parameters = << >>
    /\ sessions = << >>
    /\ ended_sessions = << >>
    /\ coordinator = Coordinator(FALSE, FALSE, {})

InitFramework(configs, asked, names) ==
    /\ Idle
    /\ NewFramework
    /\ NoDefinitions
    /\ config \in configs
    /\ requests = asked
    /\ agent_names = names

(* glob patterns *)
Anything == <<"*">>

PythonFiles == <<"*", ".py">>

(* paths, as the callers write them *)
CvFile == <<"cv", "/", "a", ".md">>

CvFileDotted == <<"cv", "/", "..", "/", "cv", "/", "a", ".md">>

RootPython == <<"main", ".py">>

RootText == <<"notes", ".txt">>

GitConfig == <<".git", "/", "config">>

SecretPython == <<"secret", "/", "x", ".py">>

Outside == <<"..", "/", "x", ".py">>

Requests(operations, paths) == [operation : operations, file_path : paths]

(* one worker and every gate of check_permission: write patterns that match
   Python files or everything, sandbox mode on or off, and paths that fail
   each gate *)
InitPermission ==
    InitFramework(
        {Config(<<Anything>>, <<PythonFiles>>, sandbox_mode, 0, max_operations) :
            sandbox_mode \in BOOLEAN, max_operations \in {1, 2}}
        \cup {Config(<<Anything>>, <<Anything>>, TRUE, 0, max_operations) :
                  max_operations \in {1, 2}},
        Requests({"read"}, {CvFile})
            \cup Requests({"write"}, {CvFile, RootPython, RootText, GitConfig,
                                      SecretPython, Outside}),
        {"A"})

NextPermission == CreateSession \/ CheckPermission \/ EndSession

SpecPermission == InitPermission /\ [][NextPermission]_vars

(* two workers that write the same file under two spellings of its path *)
InitLocks ==
    InitFramework(
        {Config(<<Anything>>, <<Anything>>, TRUE, 0, 2)},
        Requests({"write"}, {CvFile, CvFileDotted}),
        {"A", "B"})

NextLocks ==
    \/ Tick
    \/ CreateSession
    \/ CheckPermission
    \/ ReleaseFileLock
    \/ EndSession

SpecLocks == InitLocks /\ [][NextLocks]_vars

(* one worker that reads and writes a file now and then, its session timing
   out at once or after one unit of time *)
InitExpiry ==
    InitFramework(
        {Config(<<Anything>>, <<Anything>>, TRUE, timeout, 2) : timeout \in {0, 1}},
        Requests({"read", "write"}, {CvFile}),
        {"A"})

NextExpiry == Tick \/ CreateSession \/ CheckPermission \/ EndSession

SpecExpiry == InitExpiry /\ [][NextExpiry]_vars

(* one nested agent more than the limit of a group's pool *)
WideAgents == <<"A", "B", "C", "D", "E", "F">>

(* the payload every worker of a wide run returns *)
WidePayload == [k |-> "r", v |-> 90]

(* a step marked parallel: true that runs as long as r has not been published:
   before, the condition's evaluation raises and the gate lets the step pass *)
WideStep(agent) ==
    AgentStep(agent, "", << >>, <<Id("r"), Op("<"), Num(80)>>, TRUE)

(* a parallel group and a mixed batch wider than the limit of their pools,
   and parallel batches on pools of every size *)
WideDefinitions ==
    {[type |-> "sequential", max_concurrent |-> 0,
      steps |-> <<GroupStep(TRUE, WideAgents, << >>)>>],
     [type |-> "mixed", max_concurrent |-> 0,
      steps |-> <<A(TRUE)>> \o [k \in 1..(Len(WideAgents) - 1) |-> WideStep(WideAgents[k + 1])]]}
    \cup {w \in Workflows({"parallel"}, {A(FALSE)}, 1..MaxConcurrent, MaxParallelSteps) :
             Len(w.steps) = MaxParallelSteps}

InitWide == InitWith(WideDefinitions, {"none"}, {Success(WidePayload)})

NextWide ==
    \/ Initialize
    \/ Dispatch
    \/ SequentialStep
    \/ GroupJoin
    \/ MixedStep
    \/ MixedJoin
    \/ WorkerStart
    \/ WorkerFinish
    \/ Collect
    \/ GroupCollect
    \/ ParallelJoin
    \/ Finalize

InitGroups ==
    InitWith(GroupDefinitions, {"none", "ok"},
             {Success(EmptyPayload), ReturnsError, Raises})

NextGroups ==
    \/ Initialize
    \/ Dispatch
    \/ SequentialStep
    \/ GroupJoin
    \/ WorkerStart
    \/ WorkerFinish
    \/ GroupCollect
    \/ Finalize

(* sequential runs of single-agent steps and groups *)
SpecGroups == InitGroups /\ [][NextGroups]_vars

(* runs whose batches are wider than their pools, workers that succeed *)
SpecWide == InitWide /\ [][NextWide]_vars

(* a step that consumes r, and one that consumes r and publishes under r *)
BFromR == InputFrom(B(FALSE), "r")

CFromRToR == InputFrom(AgentStep("C", "r", << >>, NoCondition, FALSE), "r")

(* sequential groups of one nested step: A publishing under r, B consuming r *)
NestedA == OutputKey(GroupStep(FALSE, <<"A">>, << >>), "r")

NestedBFromR == InputFrom(GroupStep(FALSE, <<"B">>, << >>), "r")

DataDefinitions ==
    Workflows({"sequential"}, {A(FALSE), BFromR, CFromRToR, NestedA, NestedBFromR},
              {0}, MaxSteps)

InitData ==
    InitWith(DataDefinitions, {"none"},
             {Success([k |-> "score", v |-> v]) : v \in {70, 90}}
                 \cup {ReturnsError, Raises})

NextData == Initialize \/ Dispatch \/ SequentialStep \/ Finalize

(* sequential runs of steps that publish and consume shared data *)
SpecData == InitData /\ [][NextData]_vars

(* definitions of every execution type for a coordinator with a framework *)
(* lines 223-235: the caller hands the definition of the run that has
   returned to execute_workflow again, which starts from a new context *)
Rerun ==
    /\ pc = "done"
    /\ pc' = "start"
    /\ i' = 0
    /\ agent_results' = << >>
    /\ errors' = << >>
    /\ shared_data' = << >>
    /\ final_status' = ""
    /\ cb_log' = << >>
    /\ group_results' = << >>
    /\ invocations' = << >>
    /\ gate_log' = << >>
    /\ parameters' = << >>
    /\ sessions' = << >>
    /\ ended_sessions' = << >>
    /\ UNCHANGED <<framework_vars, definition_vars, workflow, status_callback, worker,
                   pool, coordinator>>

(* a producer of r and a consumer of r, each with a parameters dict of its
   own, empty as given *)
Producer == Parameters(A(FALSE), << >>)

Consumer == Parameters(InputFrom(B(FALSE), "r"), << >>)

(* sequential definitions of producers and consumers, with and without
   parameters of their own, run again and again with workers that succeed or
   fail *)
InitRuns ==
    InitWith(Workflows({"sequential"},
                       {Producer, Consumer, A(FALSE), InputFrom(B(FALSE), "r")},
                       {0}, MaxSteps),
             {"none"}, {Success(WidePayload), ReturnsError})

NextRuns == NextSequential \/ Rerun

SpecRuns == InitRuns /\ [][NextRuns]_vars

(* two workers whose write checks on one file run on two threads *)
InitThreads ==
    InitFramework(
        {Config(<<Anything>>, <<Anything>>, TRUE, 1, 3)},
        Requests({"write"}, {CvFile}),
        {"A", "B"})

NextThreads ==
    \/ CreateSession
    \/ CheckPermission
    \/ LockTested
    \/ LockTaken
    \/ EndSession

SpecThreads == InitThreads /\ [][NextThreads]_vars

SecuredDefinitions ==
    Workflows({"sequential"},
              {A(FALSE), GroupAB(TRUE, << >>), GroupAB(FALSE, << >>)}, {0}, MaxSteps)
    \cup Workflows({"parallel"}, {A(FALSE), B(FALSE)}, {0}, MaxSteps)
    \cup Workflows({"mixed"}, {A(TRUE), B(FALSE)}, {0}, MaxSteps)

(* a coordinator with a security framework, and with no config parser, with
   one that knows only A or with one that knows both workers *)
InitSecured ==
    /\ NewRun(SecuredDefinitions, {"none"}, {Success(EmptyPayload), Raises})
    /\ NewFramework
    /\ NoDefinitions
    /\ config = Config(<<Anything>>, <<Anything>>, TRUE, 0, 2)
    /\ requests = {}
    /\ agent_names = {"A", "B"}
    /\ coordinator \in {Coordinator(TRUE, FALSE, {}), Coordinator(TRUE, TRUE, {"A"}),
                         Coordinator(TRUE, TRUE, {"A", "B"})}

NextSecured ==
    \/ Tick
    \/ Initialize
    \/ Dispatch
    \/ SequentialStep
    \/ GroupJoin
    \/ MixedStep
    \/ MixedJoin
    \/ WorkerStart
    \/ WorkerFinish
    \/ Collect
    \/ GroupCollect
    \/ ParallelJoin
    \/ Finalize

(* runs of a coordinator that has a security framework, while time passes *)
SpecSecured == InitSecured /\ [][NextSecured]_vars

(* a coordinator with a security framework runs the steps of a parallel
   workflow on its pool while permission checks are made on the sessions *)
InitWorkers ==
    /\ NewRun(Workflows({"parallel"}, {A(FALSE), B(FALSE)}, {0}, MaxSteps),
              {"none"}, {Success(EmptyPayload)})
    /\ NewFramework
    /\ NoDefinitions
    /\ config = Config(<<Anything>>, <<Anything>>, TRUE, 1, 2)
    /\ requests = Requests({"read"}, {CvFile})
    /\ agent_names = {"A", "B"}
    /\ coordinator = Coordinator(TRUE, TRUE, {"A", "B"})

NextWorkers ==
    \/ Tick
    \/ Initialize
    \/ Dispatch
    \/ WorkerStart
    \/ WorkerFinish
    \/ Collect
    \/ ParallelJoin
    \/ Finalize
    \/ CheckPermission

SpecWorkers == InitWorkers /\ [][NextWorkers]_vars

(* the candidates: every shape of a step, lists of up to MaxCandidateSteps
   steps, every execution descriptor *)
StepShapes ==
    {StepShape("other", FALSE, FALSE, "absent", "absent")}
    \cup {StepShape("dict", agent, group, "absent", "absent") :
              agent \in BOOLEAN, group \in BOOLEAN}
    \cup {StepShape("dict", TRUE, FALSE, depends_on, "absent") :
              depends_on \in {"str", "strs", "ints", "other"}}
    \cup {StepShape("dict", TRUE, FALSE, "absent", condition) :
              condition \in {"str", "other"}}

StepLists ==
    {[kind |-> kind, items |-> << >>] : kind \in {"absent", "other", "list"}}
    \cup {[kind |-> "list", items |-> items] :
              items \in SeqsUpTo(StepShapes, MaxCandidateSteps)}

Executions ==
    {NoExecution, Execution("other", "absent", [kind |-> "absent", n |-> 0])}
    \cup {Execution("dict", type, max_concurrent) :
              type \in {"absent", "sequential", "parallel", "mixed", "unknown"},
              max_concurrent \in {[kind |-> "absent", n |-> 0], [kind |-> "int", n |-> 0],
                                  [kind |-> "int", n |-> 1], [kind |-> "other", n |-> 0]}}

Candidates ==
    {[NoCandidate EXCEPT !.shape = "none"]}
    \cup [shape : {"dict"}, name : {"absent", "present"},
          agents : {"absent", "empty", "list", "other"}, steps : StepLists,
          execution : Executions, parsed_at : {FALSE}]

InitDefinitions ==
    /\ Idle
    /\ NoFramework
    /\ candidate \in Candidates
    /\ outcome = NoOutcome
    /\ workflows = << >>
    /\ registrations = << >>
    /\ lookup = NoLookup

NextDefinitions == ValidateWorkflow \/ ParseWorkflowDict

(* a caller hands one candidate to the validator or to the parser *)
SpecDefinitions == InitDefinitions /\ [][NextDefinitions]_vars

InitManager == Idle /\ NoFramework /\ NoDefinitions

NextManager == RegisterWorkflow \/ GetWorkflow

(* callers register definitions and look them up *)
SpecManager == InitManager /\ [][NextManager]_vars

----------------------------------------------------------------------------
(* Properties *)

(* how many times the worker of top-level step n has been called *)
Invoked(n) == Cardinality({x \in 1..Len(invocations) : invocations[x] = <<n, 0>>})

(* the positions of agent_results that hold a result of step n *)
ResultsOf(n) == {x \in 1..Len(agent_results) : agent_results[x].step = n}

ErrorResults == {x \in 1..Len(agent_results) : agent_results[x].status = "error"}

SuccessResults == {x \in 1..Len(agent_results) : agent_results[x].status = "success"}

HasWorkflowError == \E e \in 1..Len(errors) : errors[e].type = "workflow_error"

(* C1: execute_workflow never raises, whatever the definition, the workers and
   the status callback do, and every failure (a result of status error) shows
   in the report's errors and in a status other than completed. *)
C1_NeverRaisesAndCapturesFailures ==
    /\ pc # "raised"
    /\ (pc = "done" /\ ErrorResults # {}) =>
           (errors # << >> /\ final_status \in {"partial_failure", "failed"})

(* the status the report is to carry according to the spec's report
   compilation rule *)
StatusByRule ==
    IF HasWorkflowError THEN "failed"
    ELSE IF errors = << >> THEN "completed"
    ELSE IF SuccessResults # {} THEN "partial_failure"
    ELSE "failed"

(* C2: the report's status is completed iff no errors were recorded,
   partial_failure iff errors were recorded and some result succeeded, failed
   iff errors were recorded and no result succeeded or a workflow_error was
   recorded. *)
C2_StatusFollowsRule == pc = "done" => final_status = StatusByRule

(* C3: in every mode and inside groups, a result of status error comes with an
   agent_error record for its agent in errors, so a report that holds such a
   result is not completed. *)
C3_ErrorResultsAreRecorded ==
    /\ \A x \in ErrorResults :
           \E e \in 1..Len(errors) :
               errors[e].type = "agent_error" /\ errors[e].agent = agent_results[x].agent
    /\ (pc = "done" /\ ErrorResults # {}) => final_status # "completed"

(* whether a result of status success of agent d stands before position x *)
SucceededBefore(d, x) ==
    \E y \in 1..(x - 1) :
        agent_results[y].agent = d /\ agent_results[y].status = "success"

(* the agents that have a result of status success *)
Succeeded == {agent_results[x].agent : x \in SuccessResults}

(* the workers step n depends on *)
Dependencies(n) == {steps[n].depends_on[d] : d \in 1..Len(steps[n].depends_on)}

(* C5: a step runs only if every worker of its depends_on already had a result
   of status success when its gate was evaluated: each of its results stands
   after a success of every dependency, its worker is called only when the
   dependencies have succeeded, and a step with a dependency that never
   succeeded in the run has no result and no worker call. *)
C5_DependsOnGate ==
    /\ \A x \in 1..Len(agent_results) :
           \A d \in Dependencies(agent_results[x].step) : SucceededBefore(d, x)
    /\ \A x \in 1..Len(invocations) :
           Dependencies(invocations[x][1]) \subseteq Succeeded
    /\ \A n \in 1..Len(steps) :
           ~(Dependencies(n) \subseteq Succeeded) =>
               (ResultsOf(n) = {} /\ \A x \in 1..Len(invocations) : invocations[x][1] # n)

(* C5 witness: a finished run in which a step with a depends_on was executed
   after its dependency succeeded *)
C5_Witness ==
    /\ pc = "done"
    /\ \E n \in 1..Len(steps) : Dependencies(n) # {} /\ ResultsOf(n) # {}

(* C10: in mixed mode no step's worker is called more than once per run, and
   at the end every ungated single-agent step has been called exactly once. *)
C10_MixedExecutesEachStepOnce ==
    workflow.type = "mixed" =>
        /\ \A n \in 1..Len(steps) : Invoked(n) <= 1
        /\ pc = "done" /\ ~HasWorkflowError =>
               \A n \in 1..Len(steps) :
                   (steps[n].kind = "agent" /\ steps[n].depends_on = << >>) =>
                       Invoked(n) = 1


AllGatesPassed == \A g \in 1..Len(gate_log) : gate_log[g].passed

AbsentKeyCondition(n) ==
    /\ steps[n].depends_on = << >>
    /\ Len(steps[n].condition) = 3
    /\ steps[n].condition[1].t = "id"
    /\ steps[n].condition[3].t = "num"
    /\ steps[n].condition[1].s \notin SdKeys(shared_data)

Executes(n) ==
    /\ invocations' = Append(invocations, <<n, 0>>)
    /\ Len(agent_results') = Len(agent_results) + 1

Skips == invocations' = invocations /\ agent_results' = agent_results

(* C6 as stated: with any of <, > and ==, a step whose condition references a
   key that is absent from shared_data passes its gate and is executed. *)
C6_Original ==
    [][(pc = "sequential" /\ AbsentKeyCondition(i)) => Executes(i)]_vars

(* C6 amended: with < and >, a step whose condition references a name that is
   neither a key of shared_data nor a key inside one of its values passes its
   gate and is executed; with == the name is compared as text with the
   literal, they differ, and the step is skipped. *)
C6_Amended ==
    [][(/\ pc = "sequential"
        /\ AbsentKeyCondition(i)
        /\ NestedHolders(steps[i].condition[1].s, shared_data) = {})
       => IF steps[i].condition[2].s \in {"<", ">"} THEN Executes(i) ELSE Skips]_vars

(* C6 witness: a finished run in which a step gated by 'missing < 5' was
   executed and a step gated by 'missing == 5' was skipped *)
C6_Witness ==
    /\ pc = "done"
    /\ \E n, m \in 1..Len(steps) :
        /\ steps[n] = BWhen(Id("missing"), "<", Num(5))
        /\ Invoked(n) = 1
        /\ steps[m] = BWhen(Id("missing"), "==", Num(5))
        /\ Invoked(m) = 0

(* C7: with steps A (output_key r) and B (condition 'r.score<80') and A's
   payload {score: v}, B is executed iff v < 80: for v = 90 B is skipped, the
   report holds 1 result and is completed; for v = 70 B runs and the report
   holds 2 results. *)
C7_DottedConditionScenario ==
    (/\ pc = "done"
     /\ steps = <<A(FALSE), BWhen(Id("r.score"), "<", Num(80))>>
     /\ agent_results[1].status = "success"
     /\ agent_results[1].results.k = "score")
    => /\ agent_results[1].results.v = 90 =>
              (Len(agent_results) = 1 /\ final_status = "completed")
       /\ agent_results[1].results.v = 70 => Len(agent_results) = 2

(* C8: in sequential mode, when shared_data[k] holds the payload {k: v}, a step
   with the condition 'k < c' is executed iff v < c, and when it is skipped it
   adds nothing to agent_results. *)
C8_OutputKeyCondition ==
    [][(/\ pc = "sequential"
        /\ steps[i].depends_on = << >>
        /\ Len(steps[i].condition) = 3
        /\ steps[i].condition[1].t = "id"
        /\ steps[i].condition[2] = Op("<")
        /\ steps[i].condition[3].t = "num"
        /\ steps[i].condition[1].s \in SdKeys(shared_data)
        /\ SdGet(shared_data, steps[i].condition[1].s).k = steps[i].condition[1].s)
       => IF SdGet(shared_data, steps[i].condition[1].s).v < steps[i].condition[3].n
          THEN Executes(i)
          ELSE Skips]_vars

(* C8 witness: A published {r: 80} under r and the step gated by 'r < 80' that
   follows it was skipped *)
C8_Witness ==
    /\ pc = "done"
    /\ Len(steps) >= 2
    /\ steps[1] = A(FALSE)
    /\ steps[2] = BWhen(Id("r"), "<", Num(80))
    /\ shared_data = <<[key |-> "r", val |-> [k |-> "r", v |-> 80]]>>
    /\ Invoked(2) = 0
    /\ ResultsOf(2) = {}

(* C9: in parallel mode with N ungated single-agent steps and max_concurrent
   M < N, every step's worker is called exactly once and agent_results ends
   with exactly N entries, one per step. *)
C9_ParallelAllResultsOnce ==
    workflow.max_concurrent < Len(steps) =>
        /\ \A n \in 1..Len(steps) : Invoked(n) <= 1 /\ Cardinality(ResultsOf(n)) <= 1
        /\ pc = "done" =>
               /\ Len(agent_results) = Len(steps)
               /\ \A n \in 1..Len(steps) :
                      Invoked(n) = 1 /\ Cardinality(ResultsOf(n)) = 1

(* C9 witness: three steps on a pool of two workers, all collected, the first
   result not that of the first step *)
C9_Witness ==
    /\ pc = "done"
    /\ workflow.max_concurrent = 2
    /\ Len(steps) = 3
    /\ Len(agent_results) = 3
    /\ agent_results[1].step # 1

(* the nested agents of group step n that were called and have a result *)
NestedDone(n) ==
    {k \in 1..Len(steps[n].agents) :
        /\ \E x \in 1..Len(invocations) : invocations[x] = <<n, k>>
        /\ \E x \in 1..Len(agent_results) :
               agent_results[x].step = n /\ agent_results[x].sub = k}

(* C11: in every execution mode, once the run is over, a group step whose gate
   passed has had every one of its nested agents called and holds one result
   per nested agent in agent_results; in particular a parallel-mode workflow
   of one parallel group of two agents runs both. *)
C11_GroupRunsInEveryMode ==
    (pc = "done" /\ ~HasWorkflowError) =>
        \A g \in 1..Len(gate_log) :
            (gate_log[g].passed /\ steps[gate_log[g].step].kind = "group") =>
                NestedDone(gate_log[g].step) = 1..Len(steps[gate_log[g].step].agents)

(* C12: when a status callback is supplied, a run that returns a report has
   called it with 'initializing', then 'running', then exactly one final
   status, which is the status of the report; at no time has it been called
   with more than these. *)
C12_CallbackSequence ==
    status_callback # "none" =>
        /\ Len(cb_log) <= 3
        /\ pc = "done" => cb_log = <<"initializing", "running", final_status>>

(* the execution types execute_workflow knows *)
KnownType == workflow.type \in {"sequential", "parallel", "mixed"}

(* C13: the status callback is observational. A run with a callback, whatever
   the callback does, ends as the run without one does: execute_workflow
   returns, a workflow_error is recorded only for a definition that cannot be
   scheduled, and the report's status is the one computed from the errors and
   results the steps produced. *)
C13_CallbackIsObservational ==
    /\ pc # "raised"
    /\ pc = "done" =>
           /\ HasWorkflowError <=> ~KnownType
           /\ final_status = IF HasWorkflowError THEN "failed"
                             ELSE determine_final_status(errors, agent_results)

----------------------------------------------------------------------------
(* Properties of the SecurityFramework *)

(* the step is a call of the API operation named call *)
IsCall(call) == now' = now /\ last'.call = call

Registered(session_id) == session_id \in DOMAIN active_sessions

(* the session has been inactive for longer than its timeout *)
Expired(session_id) ==
    now - active_sessions[session_id].last_activity > active_sessions[session_id].timeout

Valid(session_id) == Registered(session_id) /\ ~Expired(session_id)

(* the call about to be made on the session exceeds its ceiling *)
OverCeiling(session_id) ==
    active_sessions[session_id].operations_count + 1
        > active_sessions[session_id].max_operations

(* the path matches an allow-list prefix or the bare-filename fallback *)
MatchesAllowList(path_str) ==
    \/ \E prefix \in allowed_prefixes : StartsWith(path_str, prefix)
    \/ /\ \A t \in 1..Len(path_str) : path_str[t] # "/"
       /\ path_str[Len(path_str)] \in root_extensions

(* the worker that holds the lock on the file the path names, "" if none *)
Holder(file_path) ==
    IF relative_path(file_path) \in SdKeys(file_locks)
    THEN SdGet(file_locks, relative_path(file_path))
    ELSE ""

(* the kinds of the violations the latest call recorded *)
Kinds(recorded) == [x \in 1..Len(recorded) |-> recorded[x].violation_type]

(* the gates of path containment, sandbox and pattern let the request pass *)
PathAllowed(operation, file_path) ==
    /\ ~EscapesRoot(file_path)
    /\ config.sandbox_mode => is_path_in_sandbox(relative_path(file_path))
    /\ matches_patterns(relative_path(file_path), allowed_patterns(config, operation))

(* the kind of the first gate the request fails, "" if it passes them all;
   the session gate's kind is left open as "session" *)
FirstFailingGate(session_id, operation, file_path) ==
    IF ~Valid(session_id) THEN "session"
    ELSE IF OverCeiling(session_id) THEN "operation_limit_exceeded"
    ELSE IF EscapesRoot(file_path) THEN "path_traversal_attempt"
    ELSE IF config.sandbox_mode /\ ~is_path_in_sandbox(relative_path(file_path))
    THEN "sandbox_violation"
    ELSE IF ~matches_patterns(relative_path(file_path),
                              allowed_patterns(config, operation))
    THEN "permission_denied"
    ELSE IF /\ operation = "write"
            /\ Holder(file_path) \notin {"", active_sessions[session_id].agent_name}
    THEN "file_lock_conflict"
    ELSE ""

GateKinds ==
    {"operation_limit_exceeded", "path_traversal_attempt", "sandbox_violation",
     "permission_denied", "file_lock_conflict"}

(* C14: a check_permission call that returns false records exactly one
   violation, whose kind is that of the first failing gate (a kind of its own
   for the session gate); a call that returns true records none. *)
C14_OneViolationPerRefusal ==
    [][IsCall("check_permission") =>
        LET gate == FirstFailingGate(last'.session_id, last'.operation,
                                     last'.file_path)
        IN IF last'.ret = "false"
           THEN /\ Len(violations') = 1
                /\ IF gate = "session"
                   THEN violations'[1].violation_type \notin GateKinds
                   ELSE violations'[1].violation_type = gate
           ELSE violations' = << >>]_vars

(* C15: with sandbox mode on, a write check through a valid session within its
   ceiling, on a path inside the project root that matches no allow-list
   prefix and not the bare-filename fallback, returns false, records exactly
   one violation, of kind sandbox_violation, and leaves the lock table as it
   was, whatever the write patterns and the locks are. *)
C15_SandboxViolation ==
    [][(/\ IsCall("check_permission")
        /\ last'.operation = "write"
        /\ config.sandbox_mode
        /\ Valid(last'.session_id)
        /\ ~OverCeiling(last'.session_id)
        /\ ~EscapesRoot(last'.file_path)
        /\ ~MatchesAllowList(relative_path(last'.file_path)))
       => /\ last'.ret = "false"
          /\ Kinds(violations') = <<"sandbox_violation">>
          /\ file_locks' = file_locks]_vars

(* C15 witness: a write on notes.txt was refused as a sandbox violation while
   the write patterns match everything and a lock is held *)
C15_Witness ==
    /\ last.call = "check_permission"
    /\ last.operation = "write"
    /\ last.file_path = RootText
    /\ last.ret = "false"
    /\ Kinds(violations) = <<"sandbox_violation">>
    /\ config.write = <<Anything>>
    /\ file_locks # << >>

(* the latest call ended a session of the worker *)
EndedSessionOf(agent_name) ==
    \E x \in 1..Len(audit_log) :
        audit_log[x].event_type = "session_ended" /\ audit_log[x].agent_name = agent_name

(* the latest call was release_file_lock(file_path, agent_name) *)
Released(file_path, agent_name) ==
    /\ last.call = "release_file_lock"
    /\ last.file_path = file_path
    /\ last.agent_name = agent_name

(* C16: when worker A holds the lock on p, an otherwise-allowed write check on
   p through a session of another worker B returns false and records a
   file_lock_conflict; and when the call before was the end of A's session or
   release_file_lock(p, A), B's otherwise-allowed write check on p returns
   true. *)
C16_LockConflictThenRelease ==
    [][(/\ IsCall("check_permission")
        /\ last'.operation = "write"
        /\ Valid(last'.session_id)
        /\ ~OverCeiling(last'.session_id)
        /\ PathAllowed("write", last'.file_path))
       => LET second == active_sessions[last'.session_id].agent_name
              p == last'.file_path
          IN /\ Holder(p) \notin {"", second} =>
                    (last'.ret = "false"
                        /\ Kinds(violations') = <<"file_lock_conflict">>)
             /\ \A first \in agent_names \ {second} :
                    (/\ Holder(p) \in {"", first, second}
                     /\ EndedSessionOf(first) \/ Released(p, first))
                    => last'.ret = "true"]_vars

(* C17: a check_permission call on a registered session that has been
   inactive for longer than its timeout returns false and removes the session;
   a call on a session within its timeout leaves it registered. *)
C17_ExpiryOnNextCheck ==
    [][(IsCall("check_permission") /\ Registered(last'.session_id))
       => IF Expired(last'.session_id)
          THEN /\ last'.ret = "false"
               /\ last'.session_id \notin DOMAIN active_sessions'
          ELSE last'.session_id \in DOMAIN active_sessions']_vars

(* C17 witness: a check found its session expired, ended it and returned
   false *)
C17_Witness ==
    /\ last.call = "check_permission"
    /\ last.ret = "false"
    /\ last.session_id # NoSession
    /\ last.session_id \notin DOMAIN active_sessions
    /\ EndedSessionOf(last.session_id[1])

(* C18: every check_permission call on a valid session raises its operation
   counter by one; while the counter stays within max_operations a call on an
   otherwise-allowed path returns true, and once it is beyond, every call
   returns false with the single violation operation_limit_exceeded, so no
   check is granted beyond the ceiling. *)
C18_OperationCeiling ==
    [][(IsCall("check_permission") /\ Valid(last'.session_id))
       => LET session == active_sessions[last'.session_id]
              after == active_sessions'[last'.session_id]
          IN /\ last'.session_id \in DOMAIN active_sessions'
             /\ after.operations_count = session.operations_count + 1
             /\ last'.ret = "true" => after.operations_count <= session.max_operations
             /\ OverCeiling(last'.session_id) =>
                    (last'.ret = "false"
                        /\ Kinds(violations') = <<"operation_limit_exceeded">>)
             /\ (/\ ~OverCeiling(last'.session_id)
                 /\ PathAllowed(last'.operation, last'.file_path)
                 /\ last'.operation = "write" =>
                        Holder(last'.file_path) \in {"", session.agent_name})
                => last'.ret = "true"]_vars

(* C18 witness: a session with max_operations = 2 was granted two checks on
   two paths and its third check was refused for the ceiling *)
C18_Witness ==
    /\ last.call = "check_permission"
    /\ last.ret = "false"
    /\ Kinds(violations) = <<"operation_limit_exceeded">>
    /\ last.session_id \in DOMAIN active_sessions
    /\ active_sessions[last.session_id].max_operations = 2
    /\ active_sessions[last.session_id].operations_count = 3
    /\ Cardinality(active_sessions[last.session_id].files_accessed) = 2

(* C19: release_file_lock(path, worker) returns true and removes the lock iff
   the worker holds the lock on the path; otherwise it returns false and the
   lock table stays as it was. *)
C19_ReleaseOnlyByHolder ==
    [][IsCall("release_file_lock") =>
        IF Holder(last'.file_path) = last'.agent_name
        THEN /\ last'.ret = "true"
             /\ relative_path(last'.file_path) \notin SdKeys(file_locks')
        ELSE /\ last'.ret = "false"
             /\ file_locks' = file_locks]_vars

(* C20: end_session on a registered id removes the session, leaves no lock
   held by the session's worker and appends exactly one session_ended event;
   on an id that is not registered it changes no session and no lock and
   appends no violation and no audit event. *)
C20_EndSession ==
    [][IsCall("end_session") =>
        IF Registered(last'.session_id)
        THEN /\ last'.session_id \notin DOMAIN active_sessions'
             /\ \A x \in 1..Len(file_locks') :
                    file_locks'[x].val # active_sessions[last'.session_id].agent_name
             /\ Cardinality({x \in 1..Len(audit_log') :
                                audit_log'[x].event_type = "session_ended"}) = 1
             /\ violations' = << >>
        ELSE /\ active_sessions' = active_sessions
             /\ file_locks' = file_locks
             /\ violations' = << >>
             /\ audit_log' = << >>]_vars

(* C20 witness: the session of a worker that held a lock was ended, the lock
   was released with it and the other worker's session is still registered *)
C20_Witness ==
    /\ last.call = "end_session"
    /\ last.session_id \notin DOMAIN active_sessions
    /\ Kinds(violations) = << >>
    /\ [x \in 1..Len(audit_log) |-> audit_log[x].event_type]
           = <<"file_lock_released", "session_ended">>
    /\ file_locks = << >>
    /\ active_sessions # << >>

----------------------------------------------------------------------------
(* Properties of the schedulers *)

(* whether the result of the worker call <<step, sub>> is in agent_results *)
Recorded(call) ==
    \E x \in 1..Len(agent_results) :
        agent_results[x].step = call[1] /\ agent_results[x].sub = call[2]

(* the shared_data write of a recorded success of a step with an output_key *)
Published(x) ==
    (/\ agent_results[x].sub = 0
     /\ agent_results[x].status = "success"
     /\ steps[agent_results[x].step].output_key # "")
    => steps[agent_results[x].step].output_key \in SdKeys(shared_data)

(* C27: in sequential mode the gates are evaluated in declaration order, each
   step's at most once; whenever the loop stands before a step, and whenever a
   worker of a later step has been called, the result of every earlier worker
   call is in agent_results with its output_key write done and no pool is
   open; agent_results lists the executed steps in declaration order. *)
C27_SequentialOrder ==
    workflow.type = "sequential" =>
        /\ \A g, h \in 1..Len(gate_log) : g < h => gate_log[g].step < gate_log[h].step
        /\ \A x, y \in 1..Len(invocations) :
               x < y => invocations[x][1] <= invocations[y][1]
        /\ \A x, y \in 1..Len(invocations) :
               invocations[x][1] < invocations[y][1] => Recorded(invocations[x])
        /\ pc \in {"sequential", "finalize", "done"} =>
               /\ pool = NoPool
               /\ \A x \in 1..Len(invocations) : Recorded(invocations[x])
               /\ \A x \in 1..Len(agent_results) : Published(x)
        /\ \A x, y \in 1..Len(agent_results) :
               x < y => agent_results[x].step <= agent_results[y].step

(* C27 witness: a finished sequential run of a parallel group followed by a
   single-agent step, the group's results in completion order before the
   step's *)
C27_Witness ==
    /\ pc = "done"
    /\ workflow.type = "sequential"
    /\ steps = <<GroupAB(TRUE, << >>), A(FALSE)>>
    /\ Len(agent_results) = 3
    /\ agent_results[1].sub = 2
    /\ agent_results[3].step = 2
    /\ SdKeys(shared_data) = {"r"}

(* the error records of step n *)
ErrorsOf(n) == {e \in 1..Len(errors) : errors[e].step = n}

(* C28: in sequential mode a single-agent step whose worker returns status
   error or raises has exactly one entry in errors, an agent_error for its
   agent, and a step without such a result has none; the run goes on: when it
   is over every step's gate has been evaluated and every step whose gate
   passed has been called once and has its result recorded. *)
C28_SequentialErrorTolerance ==
    /\ \A n \in 1..Len(steps) :
           IF \E x \in ResultsOf(n) : agent_results[x].status = "error"
           THEN /\ Cardinality(ErrorsOf(n)) = 1
                /\ \A e \in ErrorsOf(n) :
                       errors[e] = ErrorRecord(n, "agent_error", steps[n].agent)
           ELSE ErrorsOf(n) = {}
    /\ pc = "done" =>
           /\ {gate_log[g].step : g \in 1..Len(gate_log)} = 1..Len(steps)
           /\ \A g \in 1..Len(gate_log) :
                  gate_log[g].passed =>
                      /\ Invoked(gate_log[g].step) = 1
                      /\ Cardinality(ResultsOf(gate_log[g].step)) = 1

(* C28 witness: the first worker raised, the second returned status error and
   both results and both errors are in the report *)
C28_Witness ==
    /\ pc = "done"
    /\ Len(agent_results) = 2
    /\ agent_results[1].via = "raised"
    /\ agent_results[2].via = "returned"
    /\ agent_results[2].status = "error"
    /\ Len(errors) = 2
    /\ final_status = "partial_failure"

(* the calls of nested agent k of group step n *)
NestedCalls(n, k) == {x \in 1..Len(invocations) : invocations[x] = <<n, k>>}

(* the positions of agent_results form one block *)
Contiguous(positions) ==
    \A x, y \in positions : \A z \in 1..Len(agent_results) :
        (x < z /\ z < y) => z \in positions

(* C29: no nested agent of a group step is called more than once, and once a
   group step has been executed each of its k nested agents has been called
   exactly once and agent_results holds exactly k results of the step, one per
   nested agent, as one contiguous block, whatever the nested agents did. *)
C29_GroupBlock ==
    workflow.type = "sequential" =>
        \A g \in 1..Len(gate_log) :
            LET n == gate_log[g].step IN
            (gate_log[g].passed /\ steps[n].kind = "group") =>
                /\ \A k \in 1..Len(steps[n].agents) :
                       Cardinality(NestedCalls(n, k)) <= 1
                /\ i > n =>
                       /\ \A k \in 1..Len(steps[n].agents) :
                              /\ Cardinality(NestedCalls(n, k)) = 1
                              /\ Cardinality({x \in ResultsOf(n) :
                                                 agent_results[x].sub = k}) = 1
                       /\ Cardinality(ResultsOf(n)) = Len(steps[n].agents)
                       /\ Contiguous(ResultsOf(n))

(* C29 witness: a parallel group ran after another step, its second nested
   agent finished first and raised, its first one succeeded, and a sequential
   group is executed in another run *)
C29_Witness ==
    /\ pc = "done"
    /\ workflow.type = "sequential"
    /\ steps = <<A(FALSE), GroupAB(TRUE, << >>)>>
    /\ Len(agent_results) = 3
    /\ agent_results[2].sub = 2
    /\ agent_results[2].via = "raised"
    /\ agent_results[3].status = "success"

(* the gate of step n evaluated on an empty agent_results and shared_data *)
GateAtStart(n) == [step |-> n, passed |-> should_execute_step(steps[n], << >>, << >>)]

(* C30: in parallel mode every step's gate is evaluated exactly once, before
   any worker is called, against agent_results and shared_data as they are at
   the start of the batch; a step with a depends_on on a worker of the same
   batch is never executed, even when that worker succeeds. *)
C30_ParallelGateOnce ==
    workflow.type = "parallel" =>
        /\ gate_log \in {<< >>, [n \in 1..Len(steps) |-> GateAtStart(n)]}
        /\ invocations # << >> => Len(gate_log) = Len(steps)
        /\ \A n \in 1..Len(steps) :
               Dependencies(n) # {} => (Invoked(n) = 0 /\ ResultsOf(n) = {})

(* C30 witness: A and a step that depends on A in one parallel batch: A
   succeeded, the run is over and the dependent step was never called *)
C30_Witness ==
    /\ pc = "done"
    /\ workflow.type = "parallel"
    /\ steps = <<A(FALSE), BAfterA(FALSE)>>
    /\ Len(agent_results) = 1
    /\ agent_results[1].status = "success"
    /\ Invoked(2) = 0
    /\ gate_log = <<[step |-> 1, passed |-> TRUE], [step |-> 2, passed |-> FALSE]>>

(* the worker calls in flight *)
InFlight == Cardinality(InState(pool, "running"))

(* C26: at every instant the number of worker calls in flight is at most
   max_concurrent in parallel mode, and at most 5 in a mixed-mode batch and in
   a parallel group step. *)
C26_ConcurrencyBound ==
    /\ workflow.type = "parallel" => InFlight <= workflow.max_concurrent
    /\ workflow.type = "mixed" => InFlight <= 5
    /\ pool.owner = "group" => InFlight <= 5

(* C26 witness: a mixed batch of six steps with five calls in flight and the
   sixth waiting for a thread *)
C26_Witness ==
    /\ workflow.type = "mixed"
    /\ pool.owner = "mixed"
    /\ Len(pool.futs) = 6
    /\ InFlight = 5
    /\ InState(pool, "queued") # {}

----------------------------------------------------------------------------
(* Properties of the validator, the parser and the manager                  *)

(* what the contract asks of a step *)
WellFormedStep(step) ==
    /\ step.kind = "dict"
    /\ step.agent \/ step.group
    /\ step.depends_on \in {"absent", "str", "strs"}
    /\ step.condition \in {"absent", "str"}

(* what the contract asks of a definition *)
WellFormed(definition) ==
    /\ definition.shape = "dict"
    /\ definition.name = "present"
    /\ definition.agents = "list"
    /\ definition.steps.kind = "list"
    /\ definition.steps.items # << >>
    /\ \A n \in 1..Len(definition.steps.items) : WellFormedStep(definition.steps.items[n])
    /\ definition.execution.kind \in {"absent", "dict"}
    /\ definition.execution.type \in {"absent", "sequential", "parallel", "mixed"}
    /\ (/\ definition.execution.type = "parallel"
        /\ definition.execution.max_concurrent.kind # "absent")
           => /\ definition.execution.max_concurrent.kind = "int"
              /\ definition.execution.max_concurrent.n >= 1

(* C21: validate_workflow returns (is_valid, errors) with is_valid true
   exactly when errors is empty, and accepts exactly the definitions that
   have name, agents and steps, a non-empty list of agents, a non-empty list
   of steps that are mappings with 'agent' or 'group', a depends_on that is a
   string or a list of strings, a condition that is a string, an execution
   type among sequential, parallel and mixed, and under parallel a positive
   integer max_concurrent *)
C21_ValidatorContract ==
    outcome.call = "validate_workflow"
        => /\ outcome.raised = ""
           /\ outcome.valid <=> outcome.errors = << >>
           /\ outcome.valid <=> WellFormed(candidate)

(* the validator's verdict on the candidate the parser was given *)
Verdict == validate_workflow([candidate EXCEPT !.parsed_at = FALSE])

(* the validator's messages among the pieces of the parser's message *)
Carried(message) ==
    SelectSeq(message, LAMBDA piece : piece.text \notin {"Invalid workflow: ", ", "})

(* C22: parse_workflow_dict returns a definition only if the validator
   accepts it, and the returned definition carries parsed_at; when the
   validator rejects the definition the parser raises ValueError whose
   message is 'Invalid workflow: ' followed by the validator's messages
   joined with ', ', and nothing is returned or stamped *)
C22_ParserContract ==
    outcome.call = "parse_workflow_dict"
        => /\ outcome.returned
                => Verdict.raised = "" /\ Verdict.valid /\ outcome.raised = ""
                   /\ candidate.parsed_at
           /\ ~outcome.returned => outcome.raised # "" /\ ~candidate.parsed_at
           /\ (Verdict.raised = "" /\ ~Verdict.valid)
                => /\ outcome.raised = "ValueError"
                   /\ ~outcome.returned
                   /\ ~candidate.parsed_at
                   /\ outcome.message[1] = Message("Invalid workflow: ", -1)
                   /\ Carried(outcome.message) = Verdict.errors
                   /\ Len(outcome.message) = 2 * Len(Verdict.errors)
                   /\ \A n \in 2..Len(outcome.message) :
                          n % 2 = 1 => outcome.message[n] = Message(", ", -1)

(* the parser rejected a definition with two faults, and accepted none *)
C22_Witness ==
    /\ outcome.call = "parse_workflow_dict"
    /\ outcome.raised = "ValueError"
    /\ Len(Verdict.errors) = 2
    /\ Len(outcome.message) = 4
    /\ ~candidate.parsed_at

(* the numbers of a version string: '10.0.0' is <<10, 0, 0>> *)
RECURSIVE components(_, _, _)
components(version, k, number) ==
    IF k > Len(version) THEN <<number>>
    ELSE IF version[k] = "." THEN <<number>> \o components(version, k + 1, 0)
    ELSE components(version, k + 1, 10 * number + (ord(version[k]) - ord("0")))

(* a is a lower semantic version than b: the first differing number decides *)
RECURSIVE sem_less(_, _, _)
sem_less(a, b, k) ==
    IF k > Len(b) THEN FALSE
    ELSE IF k > Len(a) THEN TRUE
    ELSE IF a[k] # b[k] THEN a[k] < b[k]
    ELSE sem_less(a, b, k + 1)

Latest(calls) == CHOOSE n \in calls : \A m \in calls : m <= n

(* what a lookup ought to return after the register_workflow calls so far *)
Expected(name, version, calls) ==
    LET under == {n \in 1..Len(calls) : calls[n].name = name}
        registered(n) == version_of(calls[n].workflow)
        same == {n \in under : registered(n) = version}
        highest == {n \in under : \A m \in under :
                       ~sem_less(components(registered(n), 1, 0),
                                 components(registered(m), 1, 0), 1)}
    IN IF under = {} \/ (version # << >> /\ same = {}) THEN NoWorkflow
       ELSE IF version # << >> THEN calls[Latest(same)].workflow
       ELSE calls[Latest(highest)].workflow

(* C25: after any sequence of register_workflow calls, get_workflow(name, v)
   returns the workflow most recently registered under (name, v),
   get_workflow(name) returns the workflow registered under the highest
   semantic version of the name, the versions compared number by number, and
   an unknown name yields None *)
C25_LatestVersion ==
    [][registrations' = registrations
          => lookup'.ret = Expected(lookup'.name, lookup'.version, registrations)]_vars

----------------------------------------------------------------------------
(* Properties of the data passed between steps                              *)

(* the results and the worker calls that a step of the run adds *)
NewResults == (Len(agent_results) + 1)..Len(agent_results')

NewCalls == (Len(invocations) + 1)..Len(invocations')

(* the new successes, among the results in scope, of steps declaring key *)
Writers(key, scope) ==
    {x \in scope : /\ agent_results'[x].status = "success"
                   /\ steps[agent_results'[x].step].output_key = key}

(* shared_data is written exactly by the writers in scope: a key with a
   writer holds a writer's payload, every other key is as it was *)
WrittenExactlyBy(scope) ==
    /\ \A key \in {"r"} :
           Writers(key, scope) # {}
               => /\ key \in SdKeys(shared_data')
                  /\ \E x \in Writers(key, scope) :
                         SdGet(shared_data', key) = agent_results'[x].results
    /\ \A key \in SdKeys(shared_data') :
           Writers(key, scope) = {}
               => key \in SdKeys(shared_data)
                  /\ SdGet(shared_data', key) = SdGet(shared_data, key)
    /\ SdKeys(shared_data) \subseteq SdKeys(shared_data')

(* every new call of a step declaring input_from a key of shared_data gets
   the key's value at dispatch *)
InputsInjected ==
    \A x \in NewCalls :
        LET key == steps[invocations'[x][1]].input_from IN
        (key # "" /\ key \in SdKeys(shared_data))
            => \E n \in 1..Len(parameters'[x]) :
                   /\ parameters'[x][n].key = key
                   /\ parameters'[x][n].val = SdGet(shared_data, key)

(* C24 as stated: in sequential mode shared_data[k] is written exactly when
   a step declaring output_key k returns status success, and a later step
   declaring input_from k is called with parameters[k] equal to the value of
   shared_data[k] at the time it is dispatched *)
C24_Original ==
    [][workflow.type = "sequential" => WrittenExactlyBy(NewResults) /\ InputsInjected]_vars

(* C24 amended: the same, for the steps of the workflow's own step list: the
   output_key of a step nested in a group is not honoured *)
C24_Amended ==
    [][workflow.type = "sequential"
          => /\ WrittenExactlyBy({x \in NewResults : agent_results'[x].sub = 0})
             /\ InputsInjected]_vars

(* A published 70 under r; the next step was called with r = 70, returned an
   error, and r is still 70 *)
C24_Witness ==
    /\ pc = "done"
    /\ workflow.type = "sequential"
    /\ steps = <<A(FALSE), CFromRToR>>
    /\ Len(parameters) = 2
    /\ parameters[2] = <<[key |-> "r", val |-> [k |-> "score", v |-> 70]]>>
    /\ agent_results[2].status = "error"
    /\ SdGet(shared_data, "r") = [k |-> "score", v |-> 70]

----------------------------------------------------------------------------
(* Properties of the sessions around worker calls                           *)

(* the agent that the x-th worker call of the run invokes *)
InvokedAgent(x) ==
    LET step == steps[invocations[x][1]] IN
    IF invocations[x][2] = 0 THEN step.agent ELSE step.agents[invocations[x][2]]

(* the sessions that end_session was called with *)
Ended == {ended_sessions[e] : e \in 1..Len(ended_sessions)}

(* C23: when a security framework is configured on the coordinator, every
   worker invocation is preceded by create_session for that worker and
   followed by end_session of that same session, whether the worker returns
   or raises; when execute_workflow returns, no session opened during the run
   remains in the framework's active-session table *)
C23_SessionsAroundCalls ==
    coordinator.security_framework
        => /\ Len(sessions) = Len(invocations)
           /\ \A x \in 1..Len(invocations) :
                  sessions[x] # NoSession /\ sessions[x][1] = InvokedAgent(x)
           /\ \A f \in 1..Len(pool.futs) :
                  pool.futs[f].state \in {"done", "collected"}
                      => pool.futs[f].session_id \in Ended
           /\ pool = NoPool => \A x \in 1..Len(sessions) : sessions[x] \in Ended
           /\ pc = "done" => \A x \in 1..Len(sessions) :
                                 sessions[x] \notin DOMAIN active_sessions

----------------------------------------------------------------------------
(* Properties of the lock table and of the sessions' lifetimes               *)

(* the workers that have a session in the table *)
Workers(sessions_table) ==
    {sessions_table[session_id].agent_name : session_id \in DOMAIN sessions_table}

(* C31: with the API called one call at a time, each path has at most one
   lock holder, and a write check on a path returns true for a worker only
   if, right before the call, the path was unlocked or locked by that worker *)
C31_ExclusiveLocks ==
    [][/\ \A x, y \in 1..Len(file_locks') :
              file_locks'[x].key = file_locks'[y].key => x = y
       /\ (IsCall("check_permission") /\ last'.operation = "write" /\ last'.ret = "true")
              => Holder(last'.file_path)
                     \in {"", active_sessions[last'.session_id].agent_name}]_vars

(* C31 witness: a worker was granted a write on the path it holds while the
   other worker has a session too *)
C31_Witness ==
    /\ last.call = "check_permission"
    /\ last.operation = "write"
    /\ last.ret = "true"
    /\ Len(file_locks) = 1
    /\ Registered(last.session_id)
    /\ file_locks[1].val = active_sessions[last.session_id].agent_name
    /\ Workers(active_sessions) = {"A", "B"}

(* C37: create_session returns an id that is not registered in the
   active-session table at the time of the call, so that it never replaces a
   session *)
C37_FreshSessionId ==
    [][IsCall("create_session") => ~Registered(last'.session_id)]_vars

(* C38: every entry of the lock table names a holder that has a session in
   the active-session table *)
C38_LocksHaveSessions ==
    \A x \in 1..Len(file_locks) : file_locks[x].val \in Workers(active_sessions)

(* C38 witness: after a session was ended, the lock of the other worker,
   whose session is registered, is still there *)
C38_Witness ==
    /\ last.call = "end_session"
    /\ Len(file_locks) = 1
    /\ last.session_id # NoSession
    /\ last.session_id[1] # file_locks[1].val
    /\ file_locks[1].val \in Workers(active_sessions)

(* the sessions that the step removes from the table *)
Removed == DOMAIN active_sessions \ DOMAIN active_sessions'

(* the entries of the lock table that the step removes *)
LocksReleased ==
    {x \in 1..Len(file_locks) :
        \A y \in 1..Len(file_locks') : file_locks'[y] # file_locks[x]}

(* the registered sessions of the lock's holder through which its path was
   accessed *)
Through(x) ==
    {session_id \in DOMAIN active_sessions :
        /\ active_sessions[session_id].agent_name = file_locks[x].val
        /\ file_locks[x].key \in active_sessions[session_id].files_accessed}

(* C39 as stated: a write lock acquired through a check on session s stays
   held until s is ended or expires or the lock is explicitly released; the
   end of a session through which the path was never accessed, be it another
   live session of the same worker, does not release it *)
C39_Original ==
    [][\A x \in LocksReleased :
           Through(x) # {}
               => IsCall("release_file_lock") \/ Removed \cap Through(x) # {}]_vars

(* C39 amended: a write lock held by a worker stays held until some session
   of that worker is ended or expires, or the lock is explicitly released;
   the end of a session of a different worker does not release it *)
C39_Amended ==
    [][\A x \in LocksReleased :
           \/ IsCall("release_file_lock") /\ last'.agent_name = file_locks[x].val
           \/ \E session_id \in Removed :
                  active_sessions[session_id].agent_name = file_locks[x].val]_vars

(* C39 witness: the end of a session released a lock while another session
   of the same worker, the one that accessed the path, is still registered *)
C39_Witness ==
    /\ last.call = "end_session"
    /\ \E x \in 1..Len(audit_log) : audit_log[x].event_type = "file_lock_released"
    /\ \E session_id \in DOMAIN active_sessions :
           /\ active_sessions[session_id].agent_name = last.session_id[1]
           /\ active_sessions[session_id].files_accessed # {}

(* the request passes every gate before the lock's *)
Admitted(session_id, operation, file_path) ==
    /\ Valid(session_id)
    /\ ~OverCeiling(session_id)
    /\ PathAllowed(operation, file_path)

(* every session of the worker has been inactive for longer than its timeout *)
TimedOut(agent_name) ==
    \A session_id \in DOMAIN active_sessions :
        active_sessions[session_id].agent_name = agent_name => Expired(session_id)

(* C40 as stated: a write check by a different worker on a path locked by
   the worker of a timed-out session is granted if otherwise allowed, even
   when no call has been made on the timed-out session since it expired *)
C40_Original ==
    [][(/\ IsCall("check_permission")
        /\ last'.operation = "write"
        /\ Admitted(last'.session_id, "write", last'.file_path)
        /\ Holder(last'.file_path)
               \notin {"", active_sessions[last'.session_id].agent_name}
        /\ TimedOut(Holder(last'.file_path)))
       => last'.ret = "true"]_vars

(* C40 amended: a timed-out session keeps blocking until it is removed: the
   write check of a different worker on a path locked by its worker is
   refused with file_lock_conflict and leaves the lock in place, and a check
   on the timed-out session itself removes the session and its worker's locks *)
C40_Amended ==
    [][/\ (/\ IsCall("check_permission")
           /\ last'.operation = "write"
           /\ Admitted(last'.session_id, "write", last'.file_path)
           /\ Holder(last'.file_path)
                  \notin {"", active_sessions[last'.session_id].agent_name})
          => /\ last'.ret = "false"
             /\ Kinds(violations') = <<"file_lock_conflict">>
             /\ file_locks' = file_locks
       /\ (/\ IsCall("check_permission")
           /\ Registered(last'.session_id)
           /\ Expired(last'.session_id))
          => /\ last'.session_id \notin DOMAIN active_sessions'
             /\ \A x \in 1..Len(file_locks') :
                    file_locks'[x].val # active_sessions[last'.session_id].agent_name]_vars

(* C40 witness: a worker's write was refused on a path whose holder's only
   session has timed out and is still in the table *)
C40_Witness ==
    /\ last.call = "check_permission"
    /\ last.operation = "write"
    /\ last.ret = "false"
    /\ Kinds(violations) = <<"file_lock_conflict">>
    /\ Holder(last.file_path) # ""
    /\ Holder(last.file_path) \in Workers(active_sessions)
    /\ TimedOut(Holder(last.file_path))

(* C32: once end_session has been called on a session, every later
   check_permission with that session's id returns false *)
C32_EndedStaysEnded ==
    [][(IsCall("check_permission") /\ last'.session_id \in Ended)
           => last'.ret = "false"]_vars

----------------------------------------------------------------------------
(* Properties of the framework when its API is called from several threads  *)

(* C33: calls of the API from several threads are atomic: two different
   workers that request a write on the same unlocked path at the same time
   are never both granted, so a write check never returns true to a worker
   while the path's entry names another worker *)
C33_NeverBothGranted ==
    [][(IsCall("check_permission") /\ last'.operation = "write" /\ last'.ret = "true")
           => Holder(last'.file_path) \in {"", last'.session_id[1]}]_vars

----------------------------------------------------------------------------
(* Properties of the pools: who writes the execution context                 *)

(* the pool of the step is the pool of the state before it *)
SamePool == pool.owner # "none" /\ Len(pool'.futs) = Len(pool.futs)

(* a pool thread acts: a future starts running or resolves *)
WorkerStep ==
    /\ SamePool
    /\ \E f \in 1..Len(pool.futs) :
           /\ pool'.futs[f].state # pool.futs[f].state
           /\ pool'.futs[f].state \in {"running", "done"}

(* the futures whose result the step collects *)
Collected ==
    {f \in 1..Len(pool.futs) :
        /\ SamePool
        /\ pool.futs[f].state # "collected"
        /\ pool'.futs[f].state = "collected"}

(* C34: while a parallel workflow, a batch of a mixed workflow or a parallel
   group runs, a step of a pool thread leaves shared_data, agent_results and
   errors as they are; the results are recorded by the orchestrating thread
   as it collects the futures, one resolved future at a time and each
   future's result once *)
C34_OnlyTheOrchestratorWrites ==
    [][/\ WorkerStep => /\ Collected = {}
                        /\ UNCHANGED <<shared_data, agent_results, errors, group_results>>
       /\ \A f \in Collected :
              /\ Collected = {f}
              /\ pool.futs[f].state = "done"
              /\ errors' = errors
              /\ IF pool.owner = "group"
                 THEN /\ group_results' = Append(group_results, pool.futs[f].result)
                      /\ UNCHANGED <<agent_results, shared_data>>
                 ELSE agent_results' = Append(agent_results, pool.futs[f].result)
       /\ (SamePool /\ Collected = {})
              => UNCHANGED <<shared_data, agent_results, errors, group_results>>
       /\ \A f \in 1..Len(pool.futs) :
              (SamePool /\ pool.futs[f].state = "collected")
                  => pool'.futs[f] = pool.futs[f]
       /\ (pool.owner # "none" /\ pool' = NoPool)
              => /\ AllCollected(pool)
                 /\ agent_results' = agent_results \o group_results
                 /\ UNCHANGED <<shared_data, errors>>]_vars

(* C34 witness: both futures of a batch of a mixed workflow have been
   collected and their results are the last two of agent_results *)
C34_Witness ==
    /\ pool.owner = "mixed"
    /\ Len(pool.futs) = 2
    /\ AllCollected(pool)
    /\ Len(agent_results) >= 2
    /\ {agent_results[Len(agent_results) - 1], agent_results[Len(agent_results)]}
           = {pool.futs[1].result, pool.futs[2].result}

----------------------------------------------------------------------------
(* Properties of the definition across runs                                  *)

(* C36: execute_workflow leaves the definition as it was given: the
   parameters of every step are after the run what they were before it, and
   a worker receives under a step's input_from only what the run in progress
   has published *)
C36_DefinitionUntouched ==
    /\ \A k \in 1..Len(steps) :
           steps[k].parameters.present => steps[k].parameters.dict = << >>
    /\ \A x \in 1..Len(parameters) : \A e \in 1..Len(parameters[x]) :
           parameters[x][e].key \in SdKeys(shared_data)

----------------------------------------------------------------------------
(* Termination                                                              *)

(* every future of the pool has resolved *)
AllResolved ==
    /\ pool # NoPool
    /\ \A f \in 1..Len(pool.futs) : pool.futs[f].state \in {"done", "collected"}

(* C35: when every worker call returns or raises, execute_workflow
   eventually returns a report, whatever the execution mode, and the pool of
   a batch is left once every future it was given has resolved *)
C35_ReturnsAReport ==
    /\ <>(pc = "done")
    /\ AllResolved ~> (pool = NoPool)

====
